---- MODULE Spec2Model ----
(***************************************************************************)
(* State-machine model of the apscale table curation and read-table code:  *)
(*   h_lulu_filtering.py      (check_daughter, aggregate_relations, main)  *)
(*   j_generate_read_table.py (indexing, fasta order, grouping, tables)    *)
(*   pages/6_Export_read_tables.py (export_read_tables)                    *)
(* Every run of one script is one behaviour; pc names the position.        *)
(***************************************************************************)
EXTENDS Integers, Sequences, FiniteSets, TLC

(***************************************************************************)
(* Bounds of the model.                                                    *)
(***************************************************************************)
NumIds == 3        \* OTU / ESV ids 1..NumIds of the lulu table
MaxRel == 3        \* largest relations dict handed to aggregate_relations
MaxMatches == 2    \* rows of the lulu matchfile
MaxRecs == 2       \* sequence records over all input fasta files
NumHashes == 2     \* distinct sequences of the indexing runs
NumSeqs == 3       \* distinct sequences of the grouping runs
MaxEdges == 2      \* rows of the vsearch matchfile of the grouping
MaxBuffer == 2     \* largest buffer_size of index_data_to_hdf
MaxRowsPerChunk == 2  \* max_rows_per_chunk of export_read_tables (1000 or more in the code)
MaxSteps == 3      \* rows of the 09_replicate_merging settings sheet

Ids == 1..NumIds
Samples == {"S1", "S2"}

(***************************************************************************)
(* Generic helpers.                                                        *)
(***************************************************************************)
Range(s) == {s[i] : i \in DOMAIN s}

RECURSIVE SumOver(_, _)
SumOver(f, S) ==
    IF S = {} THEN 0
    ELSE LET x == CHOOSE y \in S : TRUE IN f[x] + SumOver(f, S \ {x})

RECURSIVE Gcd(_, _)
Gcd(a, b) == IF b = 0 THEN a ELSE Gcd(b, a % b)
\* a float that is the quotient of two small integers, kept as a reduced fraction
Frac(n, d) == [num |-> n \div Gcd(n, d), den |-> d \div Gcd(n, d)]

RECURSIVE SeqsUpTo(_, _)
\* all sequences over S of length <= n
SeqsUpTo(S, n) ==
    IF n = 0 THEN {<<>>}
    ELSE LET shorter == SeqsUpTo(S, n - 1)
         IN shorter \cup {Append(s, x) : s \in {t \in shorter : Len(t) = n - 1}, x \in S}

(***************************************************************************)
(* Python dicts keep insertion order: a dict is a sequence of [k, v].      *)
(***************************************************************************)
DictKeys(d) == {d[i].k : i \in DOMAIN d}
DictGet(d, key) == d[CHOOSE i \in DOMAIN d : d[i].k = key].v
DictSet(d, key, val) ==
    IF key \in DictKeys(d)
    THEN [i \in DOMAIN d |-> IF d[i].k = key THEN [k |-> key, v |-> val] ELSE d[i]]
    ELSE Append(d, [k |-> key, v |-> val])
DictDel(d, key) == SelectSeq(d, LAMBDA e : e.k # key)

VARIABLES
    pc,             \* position of the running script
    data_table,     \* lulu: the OTU/ESV table, rows [ID, reads]
    occ_statistics, \* lulu: dict ID -> occurence
    thresholds,     \* lulu: [min_rel_co (percent), min_ratio] of the settings sheet
    matchfile,      \* lulu: rows <<query, match>> of the vsearch matchfile
    matches,        \* lulu: dict query -> list of matches
    results,        \* lulu: hits returned by check_daughter so far
    relations,      \* lulu: dict daughter -> parent handed to aggregate_relations
    agg_pos,        \* aggregate_relations: keys still to visit (reversed order)
    all_parents,    \* aggregate_relations: dict parent -> list of daughters
    output,         \* aggregate_relations: the returned dict daughter -> parent
    raw_table,      \* lulu: the table as loaded, before the correction
    input_files,    \* read table: the fasta files, [sample_name, records]
    settings,       \* read table: the 11_read_table settings sheet and buffer_size
    ix,             \* index_data_to_hdf: dicts, counters and the row buffer
    hdf,            \* the hdf store, one field per key
    fasta_data,     \* generate_fasta: the ordered sequence rows
    read_table,     \* generate_read_table: the wide table that is saved
    group_matchfile,     \* generate_sequence_groups: the matchfile table of duckdb
    groups_found,        \* generate_sequence_groups: the groups_found table
    sequence_group_data, \* generate_sequence_groups: the rows collected so far
    group_mapping,       \* the rows of group_mapping.csv
    export,              \* export_read_tables: the exported sequence and group tables
    minimum_presence,    \* merge_replicates: replicates a sequence has to be present in
    seq_data,            \* merge_replicates: dict hash -> [size, count]
    output_data,         \* merge_replicates: the records written to the output file
    file_paths,          \* max_reads_ncs: the negative control files
    input_file,          \* substract_nc_reads: the file to remove reads from
    ncs_dict,            \* max_reads_ncs: dict hash -> largest size in the controls
    out_stream,          \* substract_nc_reads: the records written
    removed_reads,       \* substract_nc_reads: the returned number of removed reads
    settings_decisions,  \* choose_input: step -> perform setting
    current_step,        \* choose_input: the step that asks for its input
    prior_step,          \* choose_input: the returned step
    temp_db,             \* export_read_tables: the tables seq_data and pivot of temp_db
    merging              \* h_replicate_merging.main: settings, loop counter and folders

luluVars == <<data_table, occ_statistics, thresholds, matchfile, matches, results,
              relations, agg_pos, all_parents, output, raw_table>>
grpVars == <<group_matchfile, groups_found, sequence_group_data, group_mapping, export>>
rtVars == <<input_files, settings, ix, hdf, fasta_data, read_table, grpVars>>
stepVars == <<minimum_presence, seq_data, output_data, file_paths, input_file, ncs_dict,
              out_stream, removed_reads, settings_decisions, current_step, prior_step,
              temp_db, merging>>
vars == <<pc, luluVars, rtVars, stepVars>>

(***************************************************************************)
(* h_lulu_filtering.load_data_table                                        *)
(***************************************************************************)
Occurence(row) == Cardinality({s \in Samples : row.reads[s] # 0})
\* data_table.sum(axis=1) runs after the occurence column was added
ReadCount(row) == SumOver(row.reads, Samples) + Occurence(row)

\* the sort by read_count alone
RowBeforeByReadCount(a, b) == ReadCount(a) > ReadCount(b)

RowBefore(a, b) ==
    \/ Occurence(a) > Occurence(b)
    \/ Occurence(a) = Occurence(b) /\ ReadCount(a) > ReadCount(b)

RECURSIVE SortByOccurence(_)
\* sort_values(by=[occurence, read_count], ascending=False): stable
SortByOccurence(tbl) ==
    IF tbl = <<>> THEN <<>>
    ELSE LET first == CHOOSE i \in DOMAIN tbl :
                        /\ \A j \in DOMAIN tbl : ~RowBefore(tbl[j], tbl[i])
                        /\ \A j \in 1..(i - 1) : RowBefore(tbl[i], tbl[j])
             rest == [j \in 1..(Len(tbl) - 1) |-> IF j < first THEN tbl[j] ELSE tbl[j + 1]]
         IN <<tbl[first]>> \o SortByOccurence(rest)

OccStatistics(tbl) == [i \in DOMAIN tbl |-> [k |-> tbl[i].ID, v |-> Occurence(tbl[i])]]

(***************************************************************************)
(* h_lulu_filtering.load_matches                                           *)
(***************************************************************************)
MatchList(mf, query) ==
    LET rows == SelectSeq(mf, LAMBDA r : r[1] = query)
    IN [i \in DOMAIN rows |-> rows[i][2]]

LoadMatches(mf, occ) ==
    LET sorter == SelectSeq(occ, LAMBDA e : \E i \in DOMAIN mf : mf[i][1] = e.k)
    IN [i \in DOMAIN sorter |-> [k |-> sorter[i].k, v |-> MatchList(mf, sorter[i].k)]]

(***************************************************************************)
(* h_lulu_filtering.check_daughter                                         *)
(***************************************************************************)
RowOf(tbl, id) == tbl[CHOOSE i \in DOMAIN tbl : tbl[i].ID = id]

\* hit_frame.index: the rows of the table that are matches of seq, in table order
HitFrame(tbl, hits) ==
    LET rows == SelectSeq(tbl, LAMBDA r : r.ID \in Range(hits))
    IN [i \in DOMAIN rows |-> rows[i].ID]

PotParents(tbl, occ, seq, hits) ==
    SelectSeq(HitFrame(tbl, hits), LAMBDA hit : DictGet(occ, hit) >= DictGet(occ, seq))

\* comp: the samples where the daughter has reads
Comp(tbl, seq) == {s \in Samples : RowOf(tbl, seq).reads[s] > 0}
\* the ZeroDivisionError branch setting rel_co = 1
RelCoZeroAsOne(tbl, seq, parent) ==
    LET den == Cardinality({s \in Comp(tbl, seq) : RowOf(tbl, parent).reads[s] # 0})
    IN IF den = 0 THEN Frac(1, 1) ELSE Frac(Cardinality(Comp(tbl, seq)), den)

\* rel_co as the fraction [num / den]; a zero denominator is the ZeroDivisionError branch
RelCo(tbl, seq, parent) ==
    LET den == Cardinality({s \in Comp(tbl, seq) : RowOf(tbl, parent).reads[s] # 0})
    IN IF den = 0 THEN Frac(0, 1) ELSE Frac(Cardinality(Comp(tbl, seq)), den)

\* rel_co > min_rel_co, with min_rel_co = setting / 100
RelCoSufficient(rc, min_rel_co) == rc.num * 100 > min_rel_co * rc.den
\* the abundance ratio taken the wrong way round (daughter reads / parent reads)
RatioSufficientSwapped(tbl, seq, parent, min_ratio) ==
    \A s \in Comp(tbl, seq) :
        RowOf(tbl, seq).reads[s] > min_ratio * RowOf(tbl, parent).reads[s]

\* min(comp["ab_ratio"]) > min_ratio, ab_ratio = parent reads / daughter reads
RatioSufficient(tbl, seq, parent, min_ratio) ==
    \A s \in Comp(tbl, seq) :
        RowOf(tbl, parent).reads[s] > min_ratio * RowOf(tbl, seq).reads[s]

\* min(comp["ab_ratio"]) as a fraction
MinAbRatio(tbl, seq, parent) ==
    LET p == RowOf(tbl, parent).reads
        d == RowOf(tbl, seq).reads
        s == CHOOSE s \in Comp(tbl, seq) :
                 \A t \in Comp(tbl, seq) : p[s] * d[t] <= p[t] * d[s]
    IN Frac(p[s], d[s])

IsParent(tbl, seq, parent, thr) ==
    /\ RelCoSufficient(RelCo(tbl, seq, parent), thr.min_rel_co)
    /\ RatioSufficient(tbl, seq, parent, thr.min_ratio)

\* min(comp["ab_ratio"]) of a comp without rows raises ValueError: a daughter without
\* reads in any sample and a candidate whose rel_co is sufficient
MinOfEmptyComp(tbl, occ, seq, hits, thr) ==
    /\ Comp(tbl, seq) = {}
    /\ \E i \in DOMAIN PotParents(tbl, occ, seq, hits) :
           RelCoSufficient(RelCo(tbl, seq, PotParents(tbl, occ, seq, hits)[i]), thr.min_rel_co)

\* the hit returned for seq: <<daughter, parent, rel_co, min ab_ratio>>, or <<>> for None
CheckDaughterResult(tbl, occ, seq, hits, thr) ==
    LET pot_parents == PotParents(tbl, occ, seq, hits)
        accepted == {i \in DOMAIN pot_parents : IsParent(tbl, seq, pot_parents[i], thr)}
    IN IF accepted = {} THEN <<>>
       ELSE LET i == CHOOSE j \in accepted : \A l \in accepted : j <= l
            IN <<seq, pot_parents[i], RelCo(tbl, seq, pot_parents[i]),
                 MinAbRatio(tbl, seq, pot_parents[i])>>

(***************************************************************************)
(* h_lulu_filtering.aggregate_relations                                    *)
(***************************************************************************)
\* the new parent takes the daughters of the daughter without the daughter itself
AggregateIterWithoutDaughter(ap, daughter, parent) ==
    IF daughter \in DictKeys(ap)
    THEN IF parent \in DictKeys(ap)
         THEN DictDel(DictSet(ap, parent,
                              DictGet(ap, parent) \o <<daughter>> \o DictGet(ap, daughter)),
                      daughter)
         ELSE DictSet(ap, parent, DictGet(ap, daughter))
    ELSE IF parent \in DictKeys(ap)
         THEN DictSet(ap, parent, DictGet(ap, parent) \o <<daughter>>)
         ELSE DictSet(ap, parent, <<daughter>>)

AggregateIter(ap, daughter, parent) ==
    IF daughter \in DictKeys(ap)
    THEN IF parent \in DictKeys(ap)
         THEN DictDel(DictSet(ap, parent,
                              DictGet(ap, parent) \o <<daughter>> \o DictGet(ap, daughter)),
                      daughter)
         ELSE DictSet(ap, parent, <<daughter>> \o DictGet(ap, daughter))
    ELSE IF parent \in DictKeys(ap)
         THEN DictSet(ap, parent, DictGet(ap, parent) \o <<daughter>>)
         ELSE DictSet(ap, parent, <<daughter>>)

RECURSIVE OutputOfList(_, _, _)
OutputOfList(out, parent, daughters) ==
    IF daughters = <<>> THEN out
    ELSE OutputOfList(DictSet(out, Head(daughters), parent), parent, Tail(daughters))

RECURSIVE AggregateOutputOf(_, _)
AggregateOutputOf(out, ap) ==
    IF ap = <<>> THEN out
    ELSE AggregateOutputOf(OutputOfList(out, Head(ap).k, Head(ap).v), Tail(ap))

(***************************************************************************)
(* h_lulu_filtering.main: correction of the table                          *)
(***************************************************************************)
MapId(rel, id) == IF id \in DictKeys(rel) THEN DictGet(rel, id) ELSE id

NewIdx(tbl, rel) ==
    [i \in DOMAIN tbl |-> [ID |-> MapId(rel, tbl[i].ID), reads |-> tbl[i].reads]]

RECURSIVE GroupBySum(_, _)
\* groupby(index, sort=False).sum(): groups in order of first appearance
GroupBySum(acc, tbl) ==
    IF tbl = <<>> THEN acc
    ELSE LET row == Head(tbl)
             hit == {i \in DOMAIN acc : acc[i].ID = row.ID}
         IN IF hit = {}
            THEN GroupBySum(Append(acc, row), Tail(tbl))
            ELSE GroupBySum(
                     [i \in DOMAIN acc |->
                         IF i \in hit
                         THEN [ID |-> row.ID,
                               reads |-> [s \in Samples |-> acc[i].reads[s] + row.reads[s]]]
                         ELSE acc[i]],
                     Tail(tbl))

RECURSIVE SortById(_)
\* sort_values(by=["sort"]): the numeric part of the ID, ascending
SortById(tbl) ==
    IF tbl = <<>> THEN <<>>
    ELSE LET first == CHOOSE i \in DOMAIN tbl :
                        /\ \A j \in DOMAIN tbl : tbl[i].ID <= tbl[j].ID
                        /\ \A j \in 1..(i - 1) : tbl[i].ID < tbl[j].ID
             rest == [j \in 1..(Len(tbl) - 1) |-> IF j < first THEN tbl[j] ELSE tbl[j + 1]]
         IN <<tbl[first]>> \o SortById(rest)

CorrectedTable(tbl, rel) == SortById(GroupBySum(<<>>, NewIdx(tbl, rel)))

(***************************************************************************)
(* A run of h_lulu_filtering leaves the read-table state alone, and back.  *)
(***************************************************************************)
EmptyIx ==
    [seq_hash_to_idx |-> <<>>, seq_hash_to_seq |-> <<>>, sample_to_idx |-> <<>>, hash_idx |-> 0,
     sample_idx |-> 0, data_idx |-> 0, full_data |-> <<>>]
EmptyHdf ==
    [read_count_data |-> <<>>, sequence_data |-> <<>>, sample_data |-> <<>>,
     sequence_group_data |-> <<>>, sequence_group_read_count_data |-> <<>>]
NoExport == [sequences |-> <<>>, groups |-> <<>>]
NoSettings == [perform |-> FALSE, group_threshold |-> "nan", buffer_size |-> 1]

None == "None"
NoFile == [sample_name |-> "", records |-> <<>>]

StepIdle ==
    /\ minimum_presence = 0
    /\ seq_data = <<>>
    /\ output_data = <<>>
    /\ file_paths = <<>>
    /\ input_file = NoFile
    /\ ncs_dict = <<>>
    /\ out_stream = <<>>
    /\ removed_reads = 0
    /\ settings_decisions = <<>>
    /\ current_step = None
    /\ prior_step = None
    /\ temp_db = <<>>
    /\ merging = <<>>

GrpIdle ==
    /\ group_matchfile = {}
    /\ groups_found = {}
    /\ sequence_group_data = <<>>
    /\ group_mapping = <<>>
    /\ export = NoExport

RtIdle ==
    /\ input_files = <<>>
    /\ settings = NoSettings
    /\ ix = EmptyIx
    /\ hdf = EmptyHdf
    /\ fasta_data = <<>>
    /\ read_table = <<>>
    /\ GrpIdle

(***************************************************************************)
(* Inputs.                                                                 *)
(***************************************************************************)
RowVals == {[S1 |-> 60, S2 |-> 40], [S1 |-> 10, S2 |-> 0], [S1 |-> 0, S2 |-> 0]}
\* the settings sheet: minimum relative cooccurence (percent), minimum ratio
ThresholdSet ==
    {[min_rel_co |-> 50, min_ratio |-> 1], [min_rel_co |-> 50, min_ratio |-> 10],
     [min_rel_co |-> 50, min_ratio |-> 6], [min_rel_co |-> 100, min_ratio |-> 1]}

\* a table file: one row per id 1..n, in id order
TablesOver(n, vals) ==
    {[i \in 1..n |-> [ID |-> i, reads |-> f[i]]] : f \in [1..n -> vals]}

\* vsearch --self never reports a sequence as its own match
Edges == {e \in Ids \X Ids : e[1] # e[2]}
EdgeBefore(a, b) == a[1] < b[1] \/ (a[1] = b[1] /\ a[2] < b[2])
MatchFiles ==
    {mf \in SeqsUpTo(Edges, MaxMatches) :
        \A i \in DOMAIN mf : \A j \in DOMAIN mf : i < j => EdgeBefore(mf[i], mf[j])}

\* relations dicts: distinct daughters, no daughter its own parent
RelationDicts ==
    {[i \in DOMAIN ks |-> [k |-> ks[i][1], v |-> ks[i][2]]] :
        ks \in {s \in SeqsUpTo(Edges, MaxRel) :
                  \A i \in DOMAIN s : \A j \in DOMAIN s : i # j => s[i][1] # s[j][1]}}

AggRowVals == {[S1 |-> 1, S2 |-> 0], [S1 |-> 2, S2 |-> 3]}
NoThresholds == [min_rel_co |-> 0, min_ratio |-> 0]

(***************************************************************************)
(* h_lulu_filtering.main, from the settings to the corrected table.        *)
(***************************************************************************)
InitLulu ==
    /\ pc = "load_data_table"
    /\ raw_table \in UNION {TablesOver(n, RowVals) : n \in 2..NumIds}
    /\ matchfile \in MatchFiles
    /\ thresholds \in ThresholdSet
    /\ data_table = <<>>
    /\ occ_statistics = <<>>
    /\ matches = <<>>
    /\ results = <<>>
    /\ relations = <<>>
    /\ agg_pos = 0
    /\ all_parents = <<>>
    /\ output = <<>>
    /\ RtIdle
    /\ StepIdle

LoadDataTable ==
    /\ pc = "load_data_table"
    /\ data_table' = SortByOccurence(raw_table)
    /\ occ_statistics' = OccStatistics(SortByOccurence(raw_table))
    /\ pc' = "load_matches"
    /\ UNCHANGED <<stepVars, rtVars, thresholds, matchfile, matches, results, relations, agg_pos,
                   all_parents, output, raw_table>>

LoadMatchesStep ==
    /\ pc = "load_matches"
    /\ matches' = LoadMatches(matchfile, occ_statistics)
    /\ pc' = "check_daughter"
    /\ UNCHANGED <<stepVars, rtVars, data_table, occ_statistics, thresholds, matchfile, results,
                   relations, agg_pos, all_parents, output, raw_table>>

\* one delayed(check_daughter) call of the Parallel map; results keep the order
\* occ_statistics[seq] for seq in matches[seq] raises KeyError for a match that
\* is no row of the table
CheckDaughter ==
    /\ pc = "check_daughter"
    /\ Len(results) < Len(matches)
    /\ LET seq == matches[Len(results) + 1].k
           hits == matches[Len(results) + 1].v
       IN IF ~(Range(hits) \subseteq DictKeys(occ_statistics))
          THEN /\ results' = results
               /\ pc' = "lulu_KeyError"
          ELSE IF MinOfEmptyComp(data_table, occ_statistics, seq, hits, thresholds)
          THEN /\ results' = results
               /\ pc' = "lulu_ValueError"
          ELSE /\ results' = Append(results,
                                    CheckDaughterResult(data_table, occ_statistics, seq,
                                                        hits, thresholds))
               /\ pc' = pc
    /\ UNCHANGED <<stepVars, rtVars, data_table, occ_statistics, thresholds, matchfile, matches,
                   relations, agg_pos, all_parents, output, raw_table>>

\* results = [hit for hit in results if hit]; relations = {hit[0]: hit[1]}
RelationsOf(res) ==
    LET hits == SelectSeq(res, LAMBDA hit : hit # <<>>)
    IN [i \in DOMAIN hits |-> [k |-> hits[i][1], v |-> hits[i][2]]]

BuildRelations ==
    /\ pc = "check_daughter"
    /\ Len(results) = Len(matches)
    /\ relations' = RelationsOf(results)
    /\ agg_pos' = Len(RelationsOf(results))
    /\ all_parents' = <<>>
    /\ pc' = "aggregate"
    /\ UNCHANGED <<stepVars, rtVars, data_table, occ_statistics, thresholds, matchfile, matches,
                   results, output, raw_table>>

\* one pass of the loop over reversed(list(relations.keys()))
AggregateStep ==
    /\ pc = "aggregate"
    /\ agg_pos > 0
    /\ all_parents' = AggregateIter(all_parents, relations[agg_pos].k, relations[agg_pos].v)
    /\ agg_pos' = agg_pos - 1
    /\ UNCHANGED <<stepVars, rtVars, pc, data_table, occ_statistics, thresholds, matchfile, matches,
                   results, relations, output, raw_table>>

AggregateOutput ==
    /\ pc = "aggregate"
    /\ agg_pos = 0
    /\ output' = AggregateOutputOf(<<>>, all_parents)
    /\ pc' = "correct"
    /\ UNCHANGED <<stepVars, rtVars, data_table, occ_statistics, thresholds, matchfile, matches,
                   results, relations, agg_pos, all_parents, raw_table>>

CorrectTable ==
    /\ pc = "correct"
    /\ data_table' = CorrectedTable(data_table, output)
    /\ pc' = "lulu_done"
    /\ UNCHANGED <<stepVars, rtVars, occ_statistics, thresholds, matchfile, matches, results,
                   relations, agg_pos, all_parents, output, raw_table>>

NextLulu ==
    \/ LoadDataTable
    \/ LoadMatchesStep
    \/ CheckDaughter
    \/ BuildRelations
    \/ AggregateStep
    \/ AggregateOutput
    \/ CorrectTable

SpecLulu == InitLulu /\ [][NextLulu]_vars

(***************************************************************************)
(* aggregate_relations and the correction on arbitrary relations dicts.    *)
(***************************************************************************)
InitAgg ==
    /\ pc = "aggregate"
    /\ raw_table \in TablesOver(NumIds, AggRowVals)
    /\ data_table = SortByOccurence(raw_table)
    /\ relations \in RelationDicts
    /\ agg_pos = Len(relations)
    /\ all_parents = <<>>
    /\ output = <<>>
    /\ occ_statistics = <<>>
    /\ thresholds = NoThresholds
    /\ matchfile = <<>>
    /\ matches = <<>>
    /\ results = <<>>
    /\ RtIdle
    /\ StepIdle

NextAgg ==
    \/ AggregateStep
    \/ AggregateOutput
    \/ CorrectTable

SpecAgg == InitAgg /\ [][NextAgg]_vars

(***************************************************************************)
(* j_generate_read_table.parse_fasta_data                                  *)
(***************************************************************************)
\* the records one file yields: the dummy sequence first, then the fasta records;
\* a record's hash stands for the header hash and the sequence it names
EmptySeq == 0      \* the hash "empty_seq" of the dummy; real hashes are 1, 2, ...
NaN == 0 - 1       \* a missing value: of a left merge, NULL, no ";size=" in a header

\* the generator without its first yield
ParseFastaDataNoSentinel(file) ==
    [i \in DOMAIN file.records |->
        [sample_name |-> file.sample_name, hash |-> file.records[i][1],
         seq |-> <<file.sample_name, i>>, read_count |-> file.records[i][2]]]

\* the sequence text of a record is named by the file and the place of the record
\* in it: the text below a header can be any text
ParseFastaData(file) ==
    <<[sample_name |-> file.sample_name, hash |-> EmptySeq, seq |-> <<"empty_seq", 0>>,
       read_count |-> 0]>>
    \o [i \in DOMAIN file.records |->
           [sample_name |-> file.sample_name, hash |-> file.records[i][1],
            seq |-> <<file.sample_name, i>>, read_count |-> file.records[i][2]]]

RECURSIVE AllRecords(_)
\* the records in the order of the two nested loops of index_data_to_hdf
AllRecords(files) ==
    IF files = <<>> THEN <<>>
    ELSE ParseFastaData(Head(files)) \o AllRecords(Tail(files))

(***************************************************************************)
(* j_generate_read_table.save_data_lines_to_hdf                            *)
(***************************************************************************)
SaveDataLinesToHdf(h, data_lines) ==
    [h EXCEPT !.read_count_data = @ \o data_lines]

(***************************************************************************)
(* j_generate_read_table.index_data_to_hdf: one pass of the inner loop     *)
(***************************************************************************)
\* the loop body without "full_data = {}" after the flush
IndexStepNoReset(st, rec, buffer_size) ==
    LET i1 == IF rec.hash \notin DictKeys(st.ix.seq_hash_to_idx)
              THEN [st.ix EXCEPT !.seq_hash_to_idx = DictSet(@, rec.hash, st.ix.hash_idx),
                                 !.seq_hash_to_seq = DictSet(@, rec.hash, rec.seq),
                                 !.hash_idx = @ + 1]
              ELSE st.ix
        i2 == IF rec.sample_name \notin DictKeys(i1.sample_to_idx)
              THEN [i1 EXCEPT !.sample_to_idx = DictSet(@, rec.sample_name, i1.sample_idx),
                              !.sample_idx = @ + 1]
              ELSE i1
        line == [hash_idx |-> DictGet(i2.seq_hash_to_idx, rec.hash),
                 sample_idx |-> DictGet(i2.sample_to_idx, rec.sample_name),
                 read_count |-> rec.read_count]
        i3 == [i2 EXCEPT !.full_data = Append(@, line), !.data_idx = @ + 1]
    IN IF i3.data_idx % buffer_size = 0
       THEN [ix |-> i3, hdf |-> SaveDataLinesToHdf(st.hdf, i3.full_data)]
       ELSE [ix |-> i3, hdf |-> st.hdf]

\* the loop body without the test "if hash not in seq_hash_to_idx"
IndexStepEveryRecord(st, rec, buffer_size) ==
    LET i1 == [st.ix EXCEPT !.seq_hash_to_idx = DictSet(@, rec.hash, st.ix.hash_idx),
                            !.seq_hash_to_seq = DictSet(@, rec.hash, rec.seq),
                            !.hash_idx = @ + 1]
        i2 == IF rec.sample_name \notin DictKeys(i1.sample_to_idx)
              THEN [i1 EXCEPT !.sample_to_idx = DictSet(@, rec.sample_name, i1.sample_idx),
                              !.sample_idx = @ + 1]
              ELSE i1
        line == [hash_idx |-> DictGet(i2.seq_hash_to_idx, rec.hash),
                 sample_idx |-> DictGet(i2.sample_to_idx, rec.sample_name),
                 read_count |-> rec.read_count]
        i3 == [i2 EXCEPT !.full_data = Append(@, line), !.data_idx = @ + 1]
    IN IF i3.data_idx % buffer_size = 0
       THEN [ix |-> [i3 EXCEPT !.full_data = <<>>],
             hdf |-> SaveDataLinesToHdf(st.hdf, i3.full_data)]
       ELSE [ix |-> i3, hdf |-> st.hdf]

\* st = [ix, hdf]
IndexStep(st, rec, buffer_size) ==
    LET i1 == IF rec.hash \notin DictKeys(st.ix.seq_hash_to_idx)
              THEN [st.ix EXCEPT !.seq_hash_to_idx = DictSet(@, rec.hash, st.ix.hash_idx),
                                 !.seq_hash_to_seq = DictSet(@, rec.hash, rec.seq),
                                 !.hash_idx = @ + 1]
              ELSE st.ix
        i2 == IF rec.sample_name \notin DictKeys(i1.sample_to_idx)
              THEN [i1 EXCEPT !.sample_to_idx = DictSet(@, rec.sample_name, i1.sample_idx),
                              !.sample_idx = @ + 1]
              ELSE i1
        line == [hash_idx |-> DictGet(i2.seq_hash_to_idx, rec.hash),
                 sample_idx |-> DictGet(i2.sample_to_idx, rec.sample_name),
                 read_count |-> rec.read_count]
        i3 == [i2 EXCEPT !.full_data = Append(@, line), !.data_idx = @ + 1]
    IN IF i3.data_idx % buffer_size = 0
       THEN [ix |-> [i3 EXCEPT !.full_data = <<>>],
             hdf |-> SaveDataLinesToHdf(st.hdf, i3.full_data)]
       ELSE [ix |-> i3, hdf |-> st.hdf]

\* the else branch of the loop and add_dicts_to_hdf
IndexFinish(st) ==
    [ix |-> st.ix,
     hdf |-> [SaveDataLinesToHdf(st.hdf, st.ix.full_data) EXCEPT
                 !.sequence_data =
                     [i \in DOMAIN st.ix.seq_hash_to_idx |->
                         [hash |-> st.ix.seq_hash_to_idx[i].k,
                          hash_idx |-> st.ix.seq_hash_to_idx[i].v,
                          seq |-> DictGet(st.ix.seq_hash_to_seq,
                                          st.ix.seq_hash_to_idx[i].k)]],
                 !.sample_data =
                     [i \in DOMAIN st.ix.sample_to_idx |->
                         [sample_name |-> st.ix.sample_to_idx[i].k,
                          sample_idx |-> st.ix.sample_to_idx[i].v]]]]

RECURSIVE IndexLoop(_, _, _)
IndexLoop(st, recs, buffer_size) ==
    IF recs = <<>> THEN st
    ELSE IndexLoop(IndexStep(st, Head(recs), buffer_size), Tail(recs), buffer_size)

\* index_data_to_hdf as a whole
IndexDataToHdf(files, buffer_size) ==
    IndexFinish(IndexLoop([ix |-> EmptyIx, hdf |-> EmptyHdf], AllRecords(files),
                          buffer_size))

(***************************************************************************)
(* j_generate_read_table.generate_fasta                                    *)
(***************************************************************************)
RowsWhere(rows, P(_)) == {i \in DOMAIN rows : P(rows[i])}

RECURSIVE SumReadCount(_, _)
SumReadCount(rows, S) ==
    IF S = {} THEN 0
    ELSE LET i == CHOOSE j \in S : TRUE
         IN rows[i].read_count + SumReadCount(rows, S \ {i})

\* groupby(hash_idx).sum() merged with sequence_data on hash_idx
MergedFastaRows(h) ==
    LET withCounts == SelectSeq(h.sequence_data,
                                LAMBDA sq : \E i \in DOMAIN h.read_count_data :
                                               h.read_count_data[i].hash_idx = sq.hash_idx)
    IN [i \in DOMAIN withCounts |->
           [hash_idx |-> withCounts[i].hash_idx,
            hash |-> withCounts[i].hash,
            read_count |-> SumReadCount(h.read_count_data,
                               RowsWhere(h.read_count_data,
                                         LAMBDA r : r.hash_idx = withCounts[i].hash_idx))]]

Bijections(n) == {f \in [1..n -> 1..n] : \A i \in 1..n : \A j \in 1..n : f[i] = f[j] => i = j}
PermsOf(sq) == {[i \in DOMAIN sq |-> sq[f[i]]] : f \in Bijections(Len(sq))}

\* sort_values(by=["read_count"], ascending=False): rows of equal read_count come
\* in an order the sort does not define; fasta_order = cumsum - 1
FastaOrders(h) ==
    {[i \in DOMAIN o |-> [hash_idx |-> o[i].hash_idx, hash |-> o[i].hash,
                          read_count |-> o[i].read_count, fasta_order |-> i - 1]] :
        o \in {q \in PermsOf(MergedFastaRows(h)) :
                 \A i \in DOMAIN q : \A j \in DOMAIN q :
                     i < j => q[i].read_count >= q[j].read_count}}

\* the fasta file: every hash but the dummy, in order
FastaFile(fd) ==
    LET rows == SelectSeq(fd, LAMBDA r : r.hash # EmptySeq)
    IN [i \in DOMAIN rows |-> rows[i].hash]

(***************************************************************************)
(* j_generate_read_table.generate_read_table                               *)
(***************************************************************************)
SampleNames(h) == {h.sample_data[i].sample_name : i \in DOMAIN h.sample_data}
SampleIdxOf(h, name) ==
    h.sample_data[CHOOSE i \in DOMAIN h.sample_data :
                      h.sample_data[i].sample_name = name].sample_idx

\* one cell of pivot_table(values="read_count", fill_value=0): the default aggfunc
\* is the mean of the merged rows; a pair without read count rows was filled with 0
PivotCell(h, hash_idx, sample_idx) ==
    LET hit == RowsWhere(h.read_count_data,
                         LAMBDA r : r.hash_idx = hash_idx /\ r.sample_idx = sample_idx)
    IN IF hit = {} THEN Frac(0, 1)
       ELSE Frac(SumReadCount(h.read_count_data, hit), Cardinality(hit))

\* the wide table in fasta order, without its last row (head(-1))
WideReadTable(h, fd) ==
    [i \in 1..(Len(fd) - 1) |->
        [hash |-> fd[i].hash,
         reads |-> [name \in SampleNames(h) |->
                       PivotCell(h, fd[i].hash_idx, SampleIdxOf(h, name))]]]

(***************************************************************************)
(* j_generate_read_table.main up to the read tables.                       *)
(***************************************************************************)
Hashes == 1..NumHashes
ReadCounts == {1, 2}
\* seq_count = int(header_data[1]): any size annotation, 0 included
SeqCounts == {0, 1}
FileNames == <<"A", "B">>
RecordLists == SeqsUpTo(Hashes \X SeqCounts, MaxRecs)
FilesOf(r) == [i \in DOMAIN FileNames |-> [sample_name |-> FileNames[i], records |-> r[i]]]
\* glob returns the files in any order
InputFileLists ==
    UNION {PermsOf(FilesOf(r)) :
              r \in {q \in [DOMAIN FileNames -> RecordLists] :
                        Len(q[1]) + Len(q[2]) <= MaxRecs}}

LuluIdle ==
    /\ data_table = <<>>
    /\ occ_statistics = <<>>
    /\ thresholds = NoThresholds
    /\ matchfile = <<>>
    /\ matches = <<>>
    /\ results = <<>>
    /\ relations = <<>>
    /\ agg_pos = 0
    /\ all_parents = <<>>
    /\ output = <<>>
    /\ raw_table = <<>>

InitIdx ==
    /\ pc = "index"
    /\ input_files \in InputFileLists
    /\ settings \in [perform : BOOLEAN, group_threshold : {"ge1", "le0", "nan"},
                     buffer_size : 1..MaxBuffer]
    /\ ix = EmptyIx
    /\ hdf = EmptyHdf
    /\ fasta_data = <<>>
    /\ read_table = <<>>
    /\ GrpIdle
    /\ LuluIdle
    /\ StepIdle

\* int(header_data[1]) raises IndexError for a header without ";size="
IndexRecord ==
    /\ pc = "index"
    /\ ix.data_idx < Len(AllRecords(input_files))
    /\ AllRecords(input_files)[ix.data_idx + 1].read_count # NaN
    /\ LET st == IndexStep([ix |-> ix, hdf |-> hdf],
                           AllRecords(input_files)[ix.data_idx + 1], settings.buffer_size)
       IN /\ ix' = st.ix
          /\ hdf' = st.hdf
    /\ UNCHANGED <<stepVars, pc, luluVars, input_files, settings, fasta_data, read_table, grpVars>>

FinishIndex ==
    /\ pc = "index"
    /\ ix.data_idx = Len(AllRecords(input_files))
    /\ LET st == IndexFinish([ix |-> ix, hdf |-> hdf])
       IN /\ ix' = st.ix
          /\ hdf' = st.hdf
    /\ pc' = "generate_fasta"
    /\ UNCHANGED <<stepVars, luluVars, input_files, settings, fasta_data, read_table, grpVars>>

GenerateFasta ==
    /\ pc = "generate_fasta"
    /\ fasta_data' \in FastaOrders(hdf)
    /\ pc' = "generate_read_table"
    /\ UNCHANGED <<stepVars, luluVars, input_files, settings, ix, hdf, read_table, grpVars>>

\* if perform: generate_read_table(...)
GenerateReadTable ==
    /\ pc = "generate_read_table"
    /\ read_table' = IF settings.perform THEN WideReadTable(hdf, fasta_data) ELSE read_table
    /\ pc' = "check_threshold"
    /\ UNCHANGED <<stepVars, luluVars, input_files, settings, ix, hdf, fasta_data, grpVars>>

\* group_threshold >= 1, <= 0 or NaN: the grouping is skipped
SkipSequenceGroups ==
    /\ pc = "check_threshold"
    /\ settings.group_threshold # "valid"
    /\ pc' = "read_table_done"
    /\ UNCHANGED <<stepVars, luluVars, rtVars>>

NextIdx ==
    \/ IndexRecord
    \/ FinishIndex
    \/ GenerateFasta
    \/ GenerateReadTable
    \/ SkipSequenceGroups

SpecIdx == InitIdx /\ [][NextIdx]_vars

(***************************************************************************)
(* index_data_to_hdf on files that may hold a record without a size        *)
(* annotation: the generator raises and the script ends.                   *)
(***************************************************************************)
InitFail ==
    /\ pc = "index"
    /\ input_files \in {FilesOf(r) :
                            r \in {q \in [DOMAIN FileNames ->
                                             SeqsUpTo(Hashes \X {1, NaN}, MaxRecs)] :
                                      Len(q[1]) + Len(q[2]) <= MaxRecs}}
    /\ settings \in [perform : {TRUE}, group_threshold : {"nan"}, buffer_size : 1..MaxBuffer]
    /\ ix = EmptyIx
    /\ hdf = EmptyHdf
    /\ fasta_data = <<>>
    /\ read_table = <<>>
    /\ GrpIdle
    /\ LuluIdle
    /\ StepIdle

\* the exception leaves index_data_to_hdf and main: nothing is cleaned up
ParseFails ==
    /\ pc = "index"
    /\ ix.data_idx < Len(AllRecords(input_files))
    /\ AllRecords(input_files)[ix.data_idx + 1].read_count = NaN
    /\ pc' = "index_IndexError"
    /\ UNCHANGED <<stepVars, luluVars, rtVars>>

SpecFail == InitFail /\ [][NextIdx \/ ParseFails]_vars

(***************************************************************************)
(* j_generate_read_table.generate_sequence_groups                          *)
(***************************************************************************)
FastaRowOf(fd, hash) ==
    LET hit == {i \in DOMAIN fd : fd[i].hash = hash}
    IN IF hit = {} THEN [hash_idx |-> NaN, fasta_order |-> NaN]
       ELSE LET i == CHOOSE j \in hit : TRUE
            IN [hash_idx |-> fd[i].hash_idx, fasta_order |-> fd[i].fasta_order]

\* the two left merges that add hash_idx and fasta_order of query and target
MergeMatchfile(edges, fd) ==
    {[query |-> e[1], target |-> e[2],
      hash_idx_query |-> FastaRowOf(fd, e[1]).hash_idx,
      fasta_order_query |-> FastaRowOf(fd, e[1]).fasta_order,
      hash_idx_target |-> FastaRowOf(fd, e[2]).hash_idx,
      fasta_order_target |-> FastaRowOf(fd, e[2]).fasta_order] : e \in edges}

\* SELECT * FROM matchfile WHERE hash_idx_query = hash_idx
AllHashMatches(mf, hash_idx) == {r \in mf : r.hash_idx_query = hash_idx}

\* the query with ORDER BY fasta_order_query DESC
GroupAssignmentLast(gf, hash_idx) ==
    LET cand == {r \in gf : r.hash_idx_target = hash_idx}
    IN {r \in cand : \A q \in cand : r.fasta_order_query >= q.fasta_order_query}

\* SELECT * FROM groups_found WHERE hash_idx_target = hash_idx
\*   ORDER BY fasta_order_query LIMIT 1
GroupAssignment(gf, hash_idx) ==
    LET cand == {r \in gf : r.hash_idx_target = hash_idx}
    IN {r \in cand : \A q \in cand : r.fasta_order_query <= q.fasta_order_query}

\* the matches of every sequence are added to groups_found, grouped or not
GroupStepInsertAlways(mf, gf, first, row) ==
    LET ga == GroupAssignment(gf, row.hash_idx)
    IN [groups_found |-> gf \cup AllHashMatches(mf, row.hash_idx),
        row |-> [hash_idx |-> row.hash_idx, hash |-> row.hash,
                 group_idx |-> IF first \/ ga = {} THEN row.hash_idx
                               ELSE (CHOOSE r \in ga : TRUE).hash_idx_query]]

\* one pass of the loop over the rows of fasta_data: [groups_found, row]
GroupStep(mf, gf, first, row) ==
    LET ga == GroupAssignment(gf, row.hash_idx)
    IN IF first \/ ga = {}
       THEN [groups_found |-> gf \cup AllHashMatches(mf, row.hash_idx),
             row |-> [hash_idx |-> row.hash_idx, hash |-> row.hash,
                      group_idx |-> row.hash_idx]]
       ELSE [groups_found |-> gf,
             row |-> [hash_idx |-> row.hash_idx, hash |-> row.hash,
                      group_idx |-> (CHOOSE r \in ga : TRUE).hash_idx_query]]

(***************************************************************************)
(* j_generate_read_table.sequence_groups_to_data_storage                   *)
(***************************************************************************)
\* the left merge of read_count_data with group_mapping[hash_idx, group_idx]
RECURSIVE MergeGroupIdx(_, _)
MergeGroupIdx(rcd, gm) ==
    IF rcd = <<>> THEN <<>>
    ELSE LET fact == Head(rcd)
             hit == SelectSeq(gm, LAMBDA m : m.hash_idx = fact.hash_idx)
             rows == IF hit = <<>>
                     THEN <<[group_idx |-> NaN, sample_idx |-> fact.sample_idx,
                             read_count |-> fact.read_count]>>
                     ELSE [i \in DOMAIN hit |->
                              [group_idx |-> hit[i].group_idx,
                               sample_idx |-> fact.sample_idx,
                               read_count |-> fact.read_count]]
         IN rows \o MergeGroupIdx(Tail(rcd), gm)

KeyBefore(a, b) ==
    a.hash_idx < b.hash_idx \/ (a.hash_idx = b.hash_idx /\ a.sample_idx < b.sample_idx)

RECURSIVE SortedKeys(_)
SortedKeys(S) ==
    IF S = {} THEN <<>>
    ELSE LET m == CHOOSE x \in S : \A y \in S : x = y \/ KeyBefore(x, y)
         IN <<m>> \o SortedKeys(S \ {m})

\* the groupby keeping the first row of every group instead of the sum
GroupReadCountsFirst(merged) ==
    LET keys == {[hash_idx |-> merged[i].group_idx, sample_idx |-> merged[i].sample_idx] :
                    i \in {j \in DOMAIN merged : merged[j].group_idx # NaN}}
        sorted == SortedKeys(keys)
    IN [i \in DOMAIN sorted |->
           [hash_idx |-> sorted[i].hash_idx, sample_idx |-> sorted[i].sample_idx,
            read_count |->
                merged[CHOOSE j \in DOMAIN merged :
                           /\ merged[j].group_idx = sorted[i].hash_idx
                           /\ merged[j].sample_idx = sorted[i].sample_idx
                           /\ \A l \in 1..(j - 1) :
                                  ~(/\ merged[l].group_idx = sorted[i].hash_idx
                                    /\ merged[l].sample_idx = sorted[i].sample_idx)].read_count]]

\* groupby(["group_idx", "sample_idx"]).sum(), group_idx renamed to hash_idx;
\* rows without a group_idx are dropped by the groupby
GroupReadCounts(merged) ==
    LET keys == {[hash_idx |-> merged[i].group_idx, sample_idx |-> merged[i].sample_idx] :
                    i \in {j \in DOMAIN merged : merged[j].group_idx # NaN}}
        sorted == SortedKeys(keys)
    IN [i \in DOMAIN sorted |->
           [hash_idx |-> sorted[i].hash_idx, sample_idx |-> sorted[i].sample_idx,
            read_count |-> SumReadCount(merged,
                               RowsWhere(merged,
                                         LAMBDA r : /\ r.group_idx = sorted[i].hash_idx
                                                    /\ r.sample_idx = sorted[i].sample_idx))]]

\* group_idx renamed to hash_idx, drop_duplicates(subset="hash_idx", keep="first")
GroupData(gm) ==
    LET firsts == SelectSeq([i \in DOMAIN gm |-> [pos |-> i, row |-> gm[i]]],
                            LAMBDA e : \A j \in 1..(e.pos - 1) :
                                           gm[j].group_idx # e.row.group_idx)
    IN [i \in DOMAIN firsts |->
           [hash_idx |-> firsts[i].row.group_idx, hash |-> firsts[i].row.hash]]

SequenceGroupsToDataStorage(h, gm) ==
    [h EXCEPT !.sequence_group_data = GroupData(gm),
              !.sequence_group_read_count_data =
                  GroupReadCounts(MergeGroupIdx(h.read_count_data, gm))]

(***************************************************************************)
(* The read store the export page opens (main.* of the duckdb file).       *)
(***************************************************************************)
SequenceOrderOf(fd, hash_idx) ==
    fd[CHOOSE i \in DOMAIN fd : fd[i].hash_idx = hash_idx].fasta_order

ReadStore(h, fd) ==
    [sequence_data |->
         [i \in DOMAIN fd |-> [sequence_idx |-> fd[i].hash_idx, sequence |-> fd[i].hash,
                               sequence_order |-> fd[i].fasta_order]],
     group_data |->
         [i \in DOMAIN h.sequence_group_data |->
             [sequence_idx |-> h.sequence_group_data[i].hash_idx,
              sequence |-> h.sequence_group_data[i].hash,
              sequence_order |-> SequenceOrderOf(fd, h.sequence_group_data[i].hash_idx)]],
     sample_data |->
         [i \in DOMAIN h.sample_data |-> [sample_idx |-> h.sample_data[i].sample_idx,
                                          sample |-> h.sample_data[i].sample_name]],
     sequence_read_count_data |->
         [i \in DOMAIN h.read_count_data |->
             [sequence_idx |-> h.read_count_data[i].hash_idx,
              sample_idx |-> h.read_count_data[i].sample_idx,
              read_count |-> h.read_count_data[i].read_count]],
     group_read_count_data |->
         [i \in DOMAIN h.sequence_group_read_count_data |->
             [sequence_idx |-> h.sequence_group_read_count_data[i].hash_idx,
              sample_idx |-> h.sequence_group_read_count_data[i].sample_idx,
              read_count |-> h.sequence_group_read_count_data[i].read_count]]]

(***************************************************************************)
(* pages/6_Export_read_tables.export_read_tables                           *)
(***************************************************************************)
DummySeq == 0 - 2  \* the sequence text 'dummy_seq' the export filters out

\* the cross product with the samples, LEFT JOIN main.sequence_read_count_data,
\* COALESCE(read_count, 0), PIVOT (SUM(read_count) FOR sample)
PivotSum(db, sequence_idx, sample_idx) ==
    SumReadCount(db.sequence_read_count_data,
                 RowsWhere(db.sequence_read_count_data,
                           LAMBDA r : /\ r.sequence_idx = sequence_idx
                                      /\ r.sample_idx = sample_idx))

RECURSIVE OrderBySequenceOrder(_)
OrderBySequenceOrder(S) ==
    IF S = {} THEN <<>>
    ELSE LET m == CHOOSE x \in S : \A y \in S : x.sequence_order <= y.sequence_order
         IN <<m>> \o OrderBySequenceOrder(S \ {m})

\* ... FROM data LEFT JOIN pivot WHERE sequence != 'dummy_seq' ORDER BY sequence_order
ExportTable(db, data) ==
    LET kept == OrderBySequenceOrder({r \in Range(data) : r.sequence # DummySeq})
    IN [i \in DOMAIN kept |->
           [sequence_idx |-> kept[i].sequence_idx,
            sequence |-> kept[i].sequence,
            reads |-> [sm \in Range(db.sample_data) |->
                          PivotSum(db, kept[i].sequence_idx, sm.sample_idx)]]]

ExportReadTablesOf(db) ==
    [sequences |-> ExportTable(db, db.sequence_data),
     groups |-> ExportTable(db, db.group_data)]

(***************************************************************************)
(* j_generate_read_table.main with a valid group threshold, started from   *)
(* the indexed store, followed by the export page.                         *)
(***************************************************************************)
Seqs == 1..NumSeqs
GroupingFiles ==
    {<<[sample_name |-> "A", records |-> [i \in Seqs |-> <<i, c[i]>>]],
       [sample_name |-> "B", records |-> [i \in Seqs |-> <<i, 1>>]]>> :
        c \in [Seqs -> ReadCounts]}

\* vsearch --self --usearch_global on the fasta file: rows <<query, target>>
GroupEdges(fd) ==
    {e \in Range(FastaFile(fd)) \X Range(FastaFile(fd)) : e[1] # e[2]}
EdgeSets(fd) == {E \in SUBSET GroupEdges(fd) : Cardinality(E) <= MaxEdges}

InitGrp ==
    /\ pc = "generate_fasta"
    /\ input_files \in GroupingFiles
    /\ settings = [perform |-> FALSE, group_threshold |-> "valid", buffer_size |-> 1]
    /\ ix = IndexDataToHdf(input_files, settings.buffer_size).ix
    /\ hdf = IndexDataToHdf(input_files, settings.buffer_size).hdf
    /\ fasta_data = <<>>
    /\ read_table = <<>>
    /\ GrpIdle
    /\ LuluIdle
    /\ StepIdle

\* the vsearch run and the load of its output into duckdb
ComputeMatchfile ==
    /\ pc = "check_threshold"
    /\ settings.group_threshold = "valid"
    /\ \E E \in EdgeSets(fasta_data) : group_matchfile' = MergeMatchfile(E, fasta_data)
    /\ groups_found' = {}
    /\ sequence_group_data' = <<>>
    /\ pc' = "group_sequences"
    /\ UNCHANGED <<stepVars, luluVars, input_files, settings, ix, hdf, fasta_data, read_table,
                   group_mapping, export>>

GroupSequence ==
    /\ pc = "group_sequences"
    /\ Len(sequence_group_data) < Len(fasta_data)
    /\ LET st == GroupStep(group_matchfile, groups_found, sequence_group_data = <<>>,
                           fasta_data[Len(sequence_group_data) + 1])
       IN /\ groups_found' = st.groups_found
          /\ sequence_group_data' = Append(sequence_group_data, st.row)
    /\ UNCHANGED <<stepVars, pc, luluVars, input_files, settings, ix, hdf, fasta_data, read_table,
                   group_matchfile, group_mapping, export>>

\* the flush of the collected rows to group_mapping.csv
FinishGroups ==
    /\ pc = "group_sequences"
    /\ Len(sequence_group_data) = Len(fasta_data)
    /\ group_mapping' = sequence_group_data
    /\ pc' = "groups_to_storage"
    /\ UNCHANGED <<stepVars, luluVars, input_files, settings, ix, hdf, fasta_data, read_table,
                   group_matchfile, groups_found, sequence_group_data, export>>

GroupsToDataStorage ==
    /\ pc = "groups_to_storage"
    /\ hdf' = SequenceGroupsToDataStorage(hdf, group_mapping)
    /\ pc' = "read_table_done"
    /\ UNCHANGED <<stepVars, luluVars, input_files, settings, ix, fasta_data, read_table, grpVars>>

ExportReadTables ==
    /\ pc = "read_table_done"
    /\ settings.group_threshold = "valid"
    /\ export' = ExportReadTablesOf(ReadStore(hdf, fasta_data))
    /\ pc' = "exported"
    /\ UNCHANGED <<stepVars, luluVars, input_files, settings, ix, hdf, fasta_data, read_table,
                   group_matchfile, groups_found, sequence_group_data, group_mapping>>

NextGrp ==
    \/ GenerateFasta
    \/ GenerateReadTable
    \/ ComputeMatchfile
    \/ GroupSequence
    \/ FinishGroups
    \/ GroupsToDataStorage
    \/ ExportReadTables

SpecGrp == InitGrp /\ [][NextGrp]_vars

(***************************************************************************)
(* The two remapping programs side by side: a run is either the correction *)
(* of h_lulu_filtering or the grouping of j_generate_read_table.           *)
(***************************************************************************)
InitRemap == InitAgg \/ InitGrp
NextRemap == NextAgg \/ NextGrp
SpecRemap == InitRemap /\ [][NextRemap]_vars

(***************************************************************************)
(* h_replicate_merging.merge_replicates                                    *)
(***************************************************************************)
RECURSIVE FastaRecords(_)
\* the records of the files in reading order, [hash, size]; the hash is computed
\* from the sequence
FastaRecords(files) ==
    IF files = <<>> THEN <<>>
    ELSE [i \in DOMAIN Head(files).records |->
             [hash |-> Head(files).records[i][1], size |-> Head(files).records[i][2]]]
         \o FastaRecords(Tail(files))

\* one pass of the loop over the records (lines 40-56)
AddToSeqData(sd, rec) ==
    IF rec.hash \notin DictKeys(sd)
    THEN DictSet(sd, rec.hash, [size |-> rec.size, count |-> 1])
    ELSE DictSet(sd, rec.hash, [size |-> DictGet(sd, rec.hash).size + rec.size,
                                count |-> DictGet(sd, rec.hash).count + 1])

\* records already added: every record adds one to a count
RecordsAdded(sd) ==
    LET counts == [i \in DOMAIN sd |-> sd[i].v.count]
    IN SumOver(counts, DOMAIN sd)

\* output_data.loc[output_data["count"] >= minimum_presence]
KeptSeqData(sd, min_presence) == SelectSeq(sd, LAMBDA e : e.v.count >= min_presence)

\* sort_values(by=["size"], ascending=False): any order of equal sizes
SizeOrders(rows) ==
    {q \in PermsOf(rows) :
        \A i \in DOMAIN q : \A j \in DOMAIN q : i < j => q[i].v.size >= q[j].v.size}

\* the records written to the output file
OutputDataOf(sd, min_presence) ==
    {[i \in DOMAIN q |-> [hash |-> q[i].k, size |-> q[i].v.size]] :
        q \in SizeOrders(KeptSeqData(sd, min_presence))}

MinimumPresences == 1..2
ReplicateFiles ==
    {FilesOf(r) : r \in {q \in [DOMAIN FileNames -> SeqsUpTo(Hashes \X ReadCounts, MaxRecs)] :
                            Len(q[1]) + Len(q[2]) <= MaxRecs}}

StepsIdleBut(own) ==
    /\ "merge" \in own \/ (minimum_presence = 0 /\ seq_data = <<>> /\ output_data = <<>>)
    /\ "nc" \in own \/ (/\ file_paths = <<>>
                        /\ input_file = NoFile
                        /\ ncs_dict = <<>>
                        /\ out_stream = <<>>
                        /\ removed_reads = 0)
    /\ "choose" \in own \/ (/\ settings_decisions = <<>>
                            /\ current_step = None
                            /\ prior_step = None)
    /\ "export" \in own \/ temp_db = <<>>
    /\ "main" \in own \/ merging = <<>>

\* nothing of the lulu and read table scripts runs
TablesIdle ==
    /\ LuluIdle
    /\ settings = NoSettings
    /\ ix = EmptyIx
    /\ hdf = EmptyHdf
    /\ fasta_data = <<>>
    /\ read_table = <<>>
    /\ GrpIdle

InitRep ==
    /\ pc = "merge_replicates"
    /\ input_files \in ReplicateFiles
    /\ minimum_presence \in MinimumPresences
    /\ seq_data = <<>>
    /\ output_data = <<>>
    /\ StepsIdleBut({"merge"})
    /\ TablesIdle

ReadReplicateRecord ==
    /\ pc = "merge_replicates"
    /\ RecordsAdded(seq_data) < Len(FastaRecords(input_files))
    /\ seq_data' = AddToSeqData(seq_data, FastaRecords(input_files)[RecordsAdded(seq_data) + 1])
    /\ UNCHANGED <<pc, luluVars, rtVars, minimum_presence, output_data, file_paths,
                   input_file, ncs_dict, out_stream, removed_reads, settings_decisions,
                   current_step, prior_step,
                   temp_db, merging>>

WriteMergedReplicates ==
    /\ pc = "merge_replicates"
    /\ RecordsAdded(seq_data) = Len(FastaRecords(input_files))
    /\ output_data' \in OutputDataOf(seq_data, minimum_presence)
    /\ pc' = "replicates_merged"
    /\ UNCHANGED <<luluVars, rtVars, minimum_presence, seq_data, file_paths, input_file,
                   ncs_dict, out_stream, removed_reads, settings_decisions, current_step,
                   prior_step,
                   temp_db, merging>>

NextRep ==
    \/ ReadReplicateRecord
    \/ WriteMergedReplicates

SpecRep == InitRep /\ [][NextRep]_vars

(***************************************************************************)
(* i_nc_removal.max_reads_ncs and substract_nc_reads                       *)
(***************************************************************************)
RECURSIVE MaxReadsNcsLoop(_, _)
\* the loop over the records of the negative controls (lines 22-39)
MaxReadsNcsLoop(d, recs) ==
    IF recs = <<>> THEN d
    ELSE LET rec == Head(recs)
         IN MaxReadsNcsLoop(IF rec.hash \in DictKeys(d)
                            THEN IF rec.size > DictGet(d, rec.hash)
                                 THEN DictSet(d, rec.hash, rec.size)
                                 ELSE d
                            ELSE DictSet(d, rec.hash, rec.size),
                            Tail(recs))

MaxReadsNcs(paths) == MaxReadsNcsLoop(<<>>, FastaRecords(paths))

\* the sequence that is not written any more loses the reads of the control
SubstractRecordNcSize(st, nc_reads, rec) ==
    IF rec.hash \in DictKeys(nc_reads)
    THEN LET new_size == rec.size - DictGet(nc_reads, rec.hash)
         IN IF new_size > 0
            THEN [out_stream |-> Append(st.out_stream, [hash |-> rec.hash, size |-> new_size]),
                  removed_reads |-> st.removed_reads + DictGet(nc_reads, rec.hash)]
            ELSE [out_stream |-> st.out_stream,
                  removed_reads |-> st.removed_reads + DictGet(nc_reads, rec.hash)]
    ELSE [out_stream |-> Append(st.out_stream, rec), removed_reads |-> st.removed_reads]

\* one pass of the loop over the records of the input file (lines 64-84)
SubstractRecord(st, nc_reads, rec) ==
    IF rec.hash \in DictKeys(nc_reads)
    THEN LET new_size == rec.size - DictGet(nc_reads, rec.hash)
         IN IF new_size > 0
            THEN [out_stream |-> Append(st.out_stream, [hash |-> rec.hash, size |-> new_size]),
                  removed_reads |-> st.removed_reads + DictGet(nc_reads, rec.hash)]
            ELSE [out_stream |-> st.out_stream,
                  removed_reads |-> st.removed_reads + rec.size]
    ELSE [out_stream |-> Append(st.out_stream, rec), removed_reads |-> st.removed_reads]

RECURSIVE SubstractLoop(_, _, _)
SubstractLoop(st, nc_reads, recs) ==
    IF recs = <<>> THEN st
    ELSE SubstractLoop(SubstractRecord(st, nc_reads, Head(recs)), nc_reads, Tail(recs))

SubstractNcReadsOf(file, nc_reads) ==
    SubstractLoop([out_stream |-> <<>>, removed_reads |-> 0], nc_reads,
                  FastaRecords(<<file>>))

\* two negative controls and one sample, sizes as vsearch --sizeout writes them
NcRecordLists == SeqsUpTo(Hashes \X ReadCounts, MaxRecs)
NcInputs ==
    {q \in [1..3 -> NcRecordLists] : Len(q[1]) + Len(q[2]) + Len(q[3]) <= MaxRecs + 1}
NcFile(name, recs) == [sample_name |-> name, records |-> recs]

InitNc ==
    /\ pc = "max_reads_ncs"
    /\ \E q \in NcInputs :
          /\ file_paths = <<NcFile("NC_1", q[1]), NcFile("NC_2", q[2])>>
          /\ input_file = NcFile("A", q[3])
    /\ ncs_dict = <<>>
    /\ out_stream = <<>>
    /\ removed_reads = 0
    /\ StepsIdleBut({"nc"})
    /\ input_files = <<>>
    /\ TablesIdle

\* nc_controls_reads = max_reads_ncs(negative_controls)
MaxReadsNcsStep ==
    /\ pc = "max_reads_ncs"
    /\ ncs_dict' = MaxReadsNcs(file_paths)
    /\ pc' = "substract_nc_reads"
    /\ UNCHANGED <<luluVars, rtVars, minimum_presence, seq_data, output_data, file_paths,
                   input_file, out_stream, removed_reads, settings_decisions, current_step,
                   prior_step,
                   temp_db, merging>>

SubstractNcReads ==
    /\ pc = "substract_nc_reads"
    /\ out_stream' = SubstractNcReadsOf(input_file, ncs_dict).out_stream
    /\ removed_reads' = SubstractNcReadsOf(input_file, ncs_dict).removed_reads
    /\ pc' = "nc_removed"
    /\ UNCHANGED <<luluVars, rtVars, minimum_presence, seq_data, output_data, file_paths,
                   input_file, ncs_dict, settings_decisions, current_step, prior_step,
                   temp_db, merging>>

NextNc ==
    \/ MaxReadsNcsStep
    \/ SubstractNcReads

SpecNc == InitNc /\ [][NextNc]_vars

(***************************************************************************)
(* a_create_project.choose_input                                           *)
(***************************************************************************)
\* the sheets that are read: the optional steps
SettingsSheets == {"07_denoising", "08_swarm_clustering", "09_replicate_merging",
                   "10_nc_removal"}
ProcessingSteps == <<"06_dereplication", "07_denoising", "08_swarm_clustering",
                     "09_replicate_merging", "10_nc_removal">>

\* settings_decisions after the loop over the sheets: a dict in the order of line 191
SettingsDecisions(perform) ==
    [i \in DOMAIN ProcessingSteps |->
        [k |-> ProcessingSteps[i],
         v |-> IF ProcessingSteps[i] \in SettingsSheets THEN perform[ProcessingSteps[i]]
               ELSE TRUE]]

StepIndex(step) == CHOOSE i \in DOMAIN ProcessingSteps : ProcessingSteps[i] = step

\* processing_steps[: idx + 1]: the current step stays a candidate
CandidateStepsInclusive(step) ==
    IF step \in Range(ProcessingSteps)
    THEN SubSeq(ProcessingSteps, 1, StepIndex(step))
    ELSE ProcessingSteps

\* processing_steps[:idx] when the current step is one of the list
CandidateSteps(step) ==
    IF step \in Range(ProcessingSteps)
    THEN SubSeq(ProcessingSteps, 1, StepIndex(step) - 1)
    ELSE ProcessingSteps

RECURSIVE LastPerformed(_, _)
\* for step in processing_steps[::-1]: the first one that has been performed; a
\* function that falls off its end returns None
LastPerformed(decisions, steps) ==
    IF steps = <<>> THEN None
    ELSE IF DictGet(decisions, steps[Len(steps)]) THEN steps[Len(steps)]
    ELSE LastPerformed(decisions, SubSeq(steps, 1, Len(steps) - 1))

ChooseInputOf(decisions, step) == LastPerformed(decisions, CandidateSteps(step))

\* the callers: the optional steps and the read table generation
CurrentSteps == Range(ProcessingSteps) \cup {"11_read_table"}

InitChoose ==
    /\ pc = "choose_input"
    /\ settings_decisions \in {SettingsDecisions(p) : p \in [SettingsSheets -> BOOLEAN]}
    /\ current_step \in CurrentSteps
    /\ prior_step = None
    /\ StepsIdleBut({"choose"})
    /\ input_files = <<>>
    /\ TablesIdle

ChooseInput ==
    /\ pc = "choose_input"
    /\ prior_step' = ChooseInputOf(settings_decisions, current_step)
    /\ pc' = "input_chosen"
    /\ UNCHANGED <<luluVars, rtVars, minimum_presence, seq_data, output_data, file_paths,
                   input_file, ncs_dict, out_stream, removed_reads, settings_decisions,
                   current_step,
                   temp_db, merging>>

SpecChoose == InitChoose /\ [][ChooseInput]_vars

(***************************************************************************)
(* h_lulu_filtering.main on tables whose order of occurence differs from   *)
(* the order of abundance, with a minimum ratio below 1.                   *)
(***************************************************************************)
DaughterRowVals == {[S1 |-> 60, S2 |-> 40], [S1 |-> 200, S2 |-> 0], [S1 |-> 10, S2 |-> 0]}
DaughterThresholds ==
    {[min_rel_co |-> 50, min_ratio |-> 1], [min_rel_co |-> 50, min_ratio |-> 0]}

InitDaughter ==
    /\ pc = "load_data_table"
    /\ raw_table \in UNION {TablesOver(n, DaughterRowVals) : n \in 2..NumIds}
    /\ matchfile \in MatchFiles
    /\ thresholds \in DaughterThresholds
    /\ data_table = <<>>
    /\ occ_statistics = <<>>
    /\ matches = <<>>
    /\ results = <<>>
    /\ relations = <<>>
    /\ agg_pos = 0
    /\ all_parents = <<>>
    /\ output = <<>>
    /\ RtIdle
    /\ StepIdle

SpecDaughter == InitDaughter /\ [][NextLulu]_vars

(***************************************************************************)
(* h_lulu_filtering.main on tables with rows without reads and rows whose  *)
(* samples do not overlap, with thresholds of zero.                        *)
(***************************************************************************)
InitZero ==
    /\ pc = "load_data_table"
    /\ raw_table \in UNION {TablesOver(n, {[S1 |-> 0, S2 |-> 0], [S1 |-> 10, S2 |-> 0],
                                            [S1 |-> 0, S2 |-> 40]}) : n \in 2..NumIds}
    /\ matchfile \in MatchFiles
    /\ thresholds \in {[min_rel_co |-> 0, min_ratio |-> 0], [min_rel_co |-> 50, min_ratio |-> 1]}
    /\ data_table = <<>>
    /\ occ_statistics = <<>>
    /\ matches = <<>>
    /\ results = <<>>
    /\ relations = <<>>
    /\ agg_pos = 0
    /\ all_parents = <<>>
    /\ output = <<>>
    /\ RtIdle
    /\ StepIdle

SpecZero == InitZero /\ [][NextLulu]_vars

(***************************************************************************)
(* pages/6_Export_read_tables.export_read_tables: the chunked pivots.      *)
(* With at most max_rows_per_chunk ids there is one chunk, which is what   *)
(* ExportTable above computes; here the chunks are shorter than the table. *)
(***************************************************************************)
RECURSIVE PivotChunks(_, _, _)
\* the loop over more_itertools.chunked(sequence_ids, max_rows_per_chunk): the pivot
\* of a chunk holds one row per sequence_idx BETWEEN min(chunk) AND max(chunk);
\* read_parquet of all chunk files puts the rows of all chunks into temp_db.pivot
PivotChunks(table_ids, sequence_ids, n) ==
    IF sequence_ids = <<>> THEN <<>>
    ELSE LET size == IF Len(sequence_ids) < n THEN Len(sequence_ids) ELSE n
             chunk == Range(SubSeq(sequence_ids, 1, size))
             min_idx == CHOOSE a \in chunk : \A b \in chunk : a <= b
             max_idx == CHOOSE a \in chunk : \A b \in chunk : a >= b
             rows == SelectSeq(table_ids, LAMBDA i : min_idx <= i /\ i <= max_idx)
         IN [k \in DOMAIN rows |-> [sequence_idx |-> rows[k]]]
            \o PivotChunks(table_ids, SubSeq(sequence_ids, size + 1, Len(sequence_ids)), n)

RECURSIVE LeftJoinPivot(_, _)
\* FROM data LEFT JOIN temp_db.pivot ON sequence_idx: a row of data comes once for
\* every row of the pivot with its sequence_idx, and once when there is none
LeftJoinPivot(data, pivot) ==
    IF data = <<>> THEN <<>>
    ELSE LET hit == SelectSeq(pivot, LAMBDA pt : pt.sequence_idx = Head(data).sequence_idx)
         IN (IF hit = <<>>
             THEN <<[sequence_idx |-> Head(data).sequence_idx,
                     sequence |-> Head(data).sequence, joined |-> FALSE]>>
             ELSE [k \in DOMAIN hit |->
                      [sequence_idx |-> Head(data).sequence_idx,
                       sequence |-> Head(data).sequence, joined |-> TRUE]])
            \o LeftJoinPivot(Tail(data), pivot)

\* the pivot table and the exported table of one of seq_data and group_data;
\* sequence_ids: the ids in the order SELECT sequence_idx FROM ... returns them
ChunkedExport(data, n) ==
    LET sequence_ids == [k \in DOMAIN data |-> data[k].sequence_idx]
        pivot == PivotChunks(sequence_ids, sequence_ids, n)
    IN [pivot |-> pivot,
        table |-> LeftJoinPivot(
                      OrderBySequenceOrder({r \in Range(data) : r.sequence # DummySeq}),
                      pivot)]

\* temp_db.seq_data: the sequence catalog, stored in sequence_order and returned
\* in the order it is stored in, without the rows the sequence filters removed
InitExport ==
    /\ pc = "export_read_tables"
    /\ temp_db \in
          [seq_data :
               {SelectSeq([k \in 1..(NumSeqs + 1) |->
                              [sequence_idx |-> f[k] - 1, sequence |-> f[k],
                               sequence_order |-> k - 1]],
                          LAMBDA r : r.sequence_idx \in kept) :
                   f \in Bijections(NumSeqs + 1), kept \in SUBSET (0..NumSeqs) \ {{}}},
           group_data : {<<>>}, pivot : {<<>>}]
    /\ merging = <<>>
    /\ StepsIdleBut({"export", "main"})
    /\ input_files = <<>>
    /\ TablesIdle

\* the sequences first, then the groups, whose pivot replaces temp_db.pivot
ExportChunked ==
    /\ pc = "export_read_tables"
    /\ temp_db' = [temp_db EXCEPT
                      !.pivot = ChunkedExport(temp_db.group_data, MaxRowsPerChunk).pivot]
    /\ export' = [sequences |-> ChunkedExport(temp_db.seq_data, MaxRowsPerChunk).table,
                  groups |-> ChunkedExport(temp_db.group_data, MaxRowsPerChunk).table]
    /\ pc' = "chunks_exported"
    /\ UNCHANGED <<luluVars, input_files, settings, ix, hdf, fasta_data, read_table,
                   group_matchfile, groups_found, sequence_group_data, group_mapping,
                   minimum_presence, seq_data, output_data, file_paths, input_file, ncs_dict,
                   out_stream, removed_reads, settings_decisions, current_step, prior_step,
                   merging>>

SpecExport == InitExport /\ [][ExportChunked]_vars

(***************************************************************************)
(* h_replicate_merging.main: the loop over the merging steps. A folder is  *)
(* the set of the runs that wrote its files: k for merging step k of this  *)
(* run, 0 for the prior processing step, -1 for an earlier run.            *)
(***************************************************************************)
InitMerging ==
    /\ pc = "remove_old_folders"
    /\ \E n \in 1..MaxSteps :
          merging \in [perform : [1..n -> BOOLEAN], step_nr : {0}, input : {{0}},
                       data : {{}, {0 - 1}},
                       steps : {[k \in 1..n |-> {}], [k \in 1..n |-> {0 - 1}]}]
    /\ temp_db = <<>>
    /\ StepsIdleBut({"export", "main"})
    /\ input_files = <<>>
    /\ TablesIdle

\* shutil.rmtree of the step folders and os.mkdir of one folder per step
RemoveOldFolders ==
    /\ pc = "remove_old_folders"
    /\ merging' = [merging EXCEPT !.steps = [k \in DOMAIN merging.steps |-> {}]]
    /\ pc' = "merging_steps"
    /\ UNCHANGED <<luluVars, rtVars, minimum_presence, seq_data, output_data, file_paths,
                   input_file, ncs_dict, out_stream, removed_reads, settings_decisions,
                   current_step, prior_step, temp_db>>

\* one pass of the loop over range(nr_of_steps); max() of the empty log_data of a
\* step without input files raises ValueError
MergingStep ==
    /\ pc = "merging_steps"
    /\ merging.step_nr < Len(merging.perform)
    /\ LET k == merging.step_nr + 1
           input == IF merging.step_nr = 0 THEN merging.input
                    ELSE merging.steps[merging.step_nr]
       IN IF ~merging.perform[k]
          THEN /\ merging' = [merging EXCEPT !.step_nr = k]
               /\ pc' = pc
          ELSE IF input = {}
          THEN /\ merging' = [merging EXCEPT !.data = {}]
               /\ pc' = "merging_ValueError"
          ELSE /\ merging' = [merging EXCEPT
                                 !.step_nr = k,
                                 !.steps[k] = {k},
                                 !.data = IF k = Len(merging.perform) THEN {k} ELSE {}]
               /\ pc' = pc
    /\ UNCHANGED <<luluVars, rtVars, minimum_presence, seq_data, output_data, file_paths,
                   input_file, ncs_dict, out_stream, removed_reads, settings_decisions,
                   current_step, prior_step, temp_db>>

SpecMerging == InitMerging /\ [][RemoveOldFolders \/ MergingStep]_vars

(***************************************************************************)
(* Properties of aggregate_relations.                                      *)
(***************************************************************************)
AggDone == pc \in {"correct", "lulu_done"}

RECURSIVE Ancestor(_, _, _)
\* the id reached from x by following at most n parent links of rel
Ancestor(rel, x, n) ==
    IF n = 0 \/ x \notin DictKeys(rel) THEN x
    ELSE Ancestor(rel, DictGet(rel, x), n - 1)

Acyclic(rel) == \A x \in DictKeys(rel) : Ancestor(rel, x, Len(rel)) \notin DictKeys(rel)

\* C1: the mapping returned by aggregate_relations is idempotent:
\* mapping(mapping(x)) = mapping(x) for every id x, for every relations dict.
C1_MappingIdempotent ==
    AggDone => \A x \in Ids : MapId(output, MapId(output, x)) = MapId(output, x)

\* C2: for every acyclic relations dict in every key order, aggregate_relations
\* maps each daughter to its ultimate ancestor.
C2_UltimateAncestor ==
    (AggDone /\ Acyclic(relations)) =>
        \A d \in DictKeys(relations) :
            /\ d \in DictKeys(output)
            /\ DictGet(output, d) = Ancestor(relations, d, Len(relations))

\* C7: applying the aggregated relations a second time to the corrected table
\* yields the same table.
C7_RemapIdempotent ==
    pc = "lulu_done" => CorrectedTable(data_table, output) = data_table

(***************************************************************************)
(* Properties of check_daughter.                                           *)
(***************************************************************************)
ScenarioTable ==
    <<[ID |-> 1, reads |-> [S1 |-> 60, S2 |-> 40]],
      [ID |-> 2, reads |-> [S1 |-> 10, S2 |-> 0]]>>
ScenarioMatches == <<(<<2, 1>>)>>
Scenario(min_ratio) ==
    /\ raw_table = ScenarioTable
    /\ matchfile = ScenarioMatches
    /\ thresholds = [min_rel_co |-> 50, min_ratio |-> min_ratio]

\* C4: AAAA (id 1; S1 60, S2 40), AAAT (id 2; S1 10), edge AAAT -> AAAA,
\* co-occurrence threshold 50: with ratio threshold 1 check_daughter returns
\* AAAA as parent (co-occurrence 1, minimum ratio 6) and the corrected table is
\* the single row AAAA with S1 70, S2 40; with ratio threshold 10 there is no
\* parent and both rows keep their counts.
C4_ScenarioAB ==
    /\ (pc = "lulu_done" /\ Scenario(1)) =>
          /\ results = <<(<<2, 1, Frac(1, 1), Frac(6, 1)>>)>>
          /\ data_table = <<[ID |-> 1, reads |-> [S1 |-> 70, S2 |-> 40]]>>
    /\ (pc = "lulu_done" /\ Scenario(10)) =>
          /\ results = <<(<<>>)>>
          /\ data_table = ScenarioTable

C4_Witness ==
    /\ pc = "lulu_done"
    /\ Scenario(1)
    /\ relations = <<[k |-> 2, v |-> 1]>>

\* a candidate whose co-occurrence and minimum ratio both equal the thresholds
ExactlyAtThresholds(tbl, seq, parent, thr) ==
    /\ Comp(tbl, seq) # {}
    /\ RelCo(tbl, seq, parent).num * 100 = thr.min_rel_co * RelCo(tbl, seq, parent).den
    /\ MinAbRatio(tbl, seq, parent).num = thr.min_ratio * MinAbRatio(tbl, seq, parent).den

\* C5: the thresholds are inclusive: a daughter with a candidate parent exactly at
\* both thresholds gets a parent.
C5_InclusiveThresholds ==
    \A i \in DOMAIN results :
        (\E parent \in Range(PotParents(data_table, occ_statistics, matches[i].k,
                                        matches[i].v)) :
            ExactlyAtThresholds(data_table, matches[i].k, parent, thresholds))
        => results[i] # <<>>

(***************************************************************************)
(* Properties of the remapping.                                            *)
(***************************************************************************)
RECURSIVE TableSum(_, _)
TableSum(tbl, sample) ==
    IF tbl = <<>> THEN 0 ELSE Head(tbl).reads[sample] + TableSum(Tail(tbl), sample)

SampleSum(rows, sample_idx) ==
    SumReadCount(rows, RowsWhere(rows, LAMBDA r : r.sample_idx = sample_idx))

GroupsStored == pc \in {"read_table_done", "exported"} /\ settings.group_threshold = "valid"

\* C3: remapping never creates or destroys reads: after the correction of
\* h_lulu_filtering.main and after sequence_groups_to_data_storage every sample
\* has the same sum of counts as before the remapping.
C3_Conservation ==
    /\ pc = "lulu_done" =>
          \A sample \in Samples : TableSum(data_table, sample) = TableSum(raw_table, sample)
    /\ GroupsStored =>
          \A i \in DOMAIN hdf.sample_data :
              SampleSum(hdf.sequence_group_read_count_data, hdf.sample_data[i].sample_idx)
                  = SampleSum(hdf.read_count_data, hdf.sample_data[i].sample_idx)

C3_Witness ==
    /\ GroupsStored
    /\ \E i \in DOMAIN group_mapping : group_mapping[i].group_idx # group_mapping[i].hash_idx
    /\ Len(hdf.sequence_group_read_count_data) < Len(hdf.read_count_data)

(***************************************************************************)
(* Properties of the indexing and of the read table.                       *)
(***************************************************************************)
ReadTablesOf(h) == {WideReadTable(h, fd) : fd \in FastaOrders(h)}

\* C6: the results do not depend on the order of the input files: every
\* permutation of the file list gives every hash the same hash_idx, every sample
\* the same sample_idx, every sequence the same fasta_order and the same read
\* tables.
C6_OrderIndependent ==
    pc # "index" =>
        \A files \in PermsOf(input_files) :
            LET other == IndexDataToHdf(files, settings.buffer_size)
            IN /\ Range(other.ix.seq_hash_to_idx) = Range(ix.seq_hash_to_idx)
               /\ Range(other.ix.sample_to_idx) = Range(ix.sample_to_idx)
               /\ FastaOrders(other.hdf) = FastaOrders(hdf)
               /\ ReadTablesOf(other.hdf) = ReadTablesOf(hdf)

RecordsOf(files, hash, sample_name) ==
    RowsWhere(AllRecords(files), LAMBDA r : r.hash = hash /\ r.sample_name = sample_name)

\* C9: a (hash, sample) pair parsed in more than one record has the sum of the
\* counts of those records in its cell of the read table.
C9_DuplicatesSummed ==
    (pc \in {"check_threshold", "read_table_done"} /\ settings.perform) =>
        \A i \in DOMAIN read_table : \A name \in DOMAIN read_table[i].reads :
            Cardinality(RecordsOf(input_files, read_table[i].hash, name)) > 1 =>
                read_table[i].reads[name] =
                    Frac(SumReadCount(AllRecords(input_files),
                                      RecordsOf(input_files, read_table[i].hash, name)), 1)

(***************************************************************************)
(* Properties of the grouping and of the export.                           *)
(***************************************************************************)
\* C8: the group_idx of every sequence is the hash_idx of a sequence that is its
\* own group: a sequence assigned to another group represents no sequence.
C8_RepresentativesAreRoots ==
    \A i \in DOMAIN sequence_group_data :
        \E j \in DOMAIN sequence_group_data :
            /\ sequence_group_data[j].hash_idx = sequence_group_data[i].group_idx
            /\ sequence_group_data[j].group_idx = sequence_group_data[j].hash_idx

C8_Witness ==
    /\ pc = "groups_to_storage"
    /\ \E i \in DOMAIN group_mapping : \E j \in DOMAIN group_mapping :
          /\ group_mapping[i].group_idx # group_mapping[i].hash_idx
          /\ \E r \in group_matchfile :
                /\ r.hash_idx_query = group_mapping[i].hash_idx
                /\ r.hash_idx_target = group_mapping[j].hash_idx
                /\ group_mapping[j].group_idx # group_mapping[i].hash_idx

MembersOf(gm, group_idx) == {gm[i].hash_idx : i \in {j \in DOMAIN gm : gm[j].group_idx = group_idx}}

\* C10: in the exported group table the value of row r and sample s is the sum of
\* the read counts in s of all sequences whose group mapping points to r.
C10_GroupTableSums ==
    pc = "exported" =>
        \A i \in DOMAIN export.groups : \A sm \in DOMAIN export.groups[i].reads :
            export.groups[i].reads[sm] =
                SumReadCount(hdf.read_count_data,
                             RowsWhere(hdf.read_count_data,
                                       LAMBDA r : /\ r.sample_idx = sm.sample_idx
                                                  /\ r.hash_idx \in
                                                         MembersOf(group_mapping,
                                                                   export.groups[i].sequence_idx)))

(***************************************************************************)
(* Properties of the sentinel record and of the order of main.             *)
(***************************************************************************)
ReadTableWritten == pc \in {"check_threshold", "read_table_done"} /\ settings.perform

\* C11: the read table written by generate_read_table has exactly one row for
\* every sequence of the catalog but the sentinel and no row for the sentinel:
\* the row head(-1) removes is the sentinel's, for all read counts >= 0.
C11_SentinelRowDropped ==
    ReadTableWritten =>
        /\ \A h \in DictKeys(ix.seq_hash_to_idx) \ {EmptySeq} :
              Cardinality({i \in DOMAIN read_table : read_table[i].hash = h}) = 1
        /\ \A i \in DOMAIN read_table : read_table[i].hash # EmptySeq

EmptyFiles == {input_files[i].sample_name :
                  i \in {j \in DOMAIN input_files : input_files[j].records = <<>>}}

\* C12: a sample whose file holds no sequence record is in the sample catalog,
\* has a total read count of 0 and is a column of the read table with the value 0
\* in every row.
C12_EmptySample ==
    pc # "index" =>
        \A name \in EmptyFiles :
            /\ name \in SampleNames(hdf)
            /\ SampleSum(hdf.read_count_data, SampleIdxOf(hdf, name)) = 0
            /\ ReadTableWritten =>
                  \A i \in DOMAIN read_table :
                      /\ name \in DOMAIN read_table[i].reads
                      /\ read_table[i].reads[name] = Frac(0, 1)

C12_Witness ==
    /\ ReadTableWritten
    /\ EmptyFiles # {}
    /\ read_table # <<>>
    /\ \E i \in DOMAIN read_table : \E name \in DOMAIN read_table[i].reads :
          read_table[i].reads[name] # Frac(0, 1)

\* C13: with a sequence group threshold out of range (>= 1, <= 0 or NaN) no stage
\* of main runs: nothing is indexed, no fasta and no read table is written.
C13_ValidatedBeforeWork ==
    settings.group_threshold \in {"ge1", "le0", "nan"} =>
        /\ ix = EmptyIx
        /\ hdf = EmptyHdf
        /\ fasta_data = <<>>
        /\ read_table = <<>>

(***************************************************************************)
(* Properties of the optional steps.                                       *)
(***************************************************************************)
FilesHolding(hash) ==
    {i \in DOMAIN input_files :
        \E j \in DOMAIN input_files[i].records : input_files[i].records[j][1] = hash}

SizeSum(recs, hash) ==
    LET sizes == [i \in DOMAIN recs |-> recs[i].size]
    IN SumOver(sizes, {i \in DOMAIN recs : recs[i].hash = hash})

\* C14: merge_replicates writes a sequence if and only if it is present in at
\* least minimum_presence of the replicate files, with the sum of its sizes; two
\* records of a sequence in one file count as one replicate.
C14_PresentInReplicates ==
    pc = "replicates_merged" =>
        /\ {output_data[i].hash : i \in DOMAIN output_data}
               = {h \in Hashes : Cardinality(FilesHolding(h)) >= minimum_presence}
        /\ \A i \in DOMAIN output_data :
              output_data[i].size = SizeSum(FastaRecords(input_files), output_data[i].hash)

NcSizes(hash) ==
    {FastaRecords(file_paths)[i].size :
        i \in {j \in DOMAIN FastaRecords(file_paths) : FastaRecords(file_paths)[j].hash = hash}}

\* what substract_nc_reads has to write for one record: nothing or one record
ExpectedRecord(rec) ==
    IF NcSizes(rec.hash) = {} THEN <<rec>>
    ELSE LET max_size == CHOOSE m \in NcSizes(rec.hash) : \A n \in NcSizes(rec.hash) : n <= m
         IN IF rec.size - max_size > 0
            THEN <<[hash |-> rec.hash, size |-> rec.size - max_size]>>
            ELSE <<>>

RECURSIVE ExpectedStream(_)
ExpectedStream(recs) ==
    IF recs = <<>> THEN <<>> ELSE ExpectedRecord(Head(recs)) \o ExpectedStream(Tail(recs))

TotalSize(recs) ==
    LET sizes == [i \in DOMAIN recs |-> recs[i].size]
    IN SumOver(sizes, DOMAIN recs)

\* C15: max_reads_ncs maps every sequence of the negative controls to its largest
\* size there; substract_nc_reads writes a sequence absent from the map unchanged,
\* a sequence of the map with its size reduced by the mapped size when that is
\* > 0 and not at all otherwise; every written size is > 0 and <= the input
\* size, and removed_reads is the total input size minus the total written size.
C15_NcRemoval ==
    /\ pc \in {"substract_nc_reads", "nc_removed"} =>
          /\ DictKeys(ncs_dict) = {h \in Hashes : NcSizes(h) # {}}
          /\ \A h \in DictKeys(ncs_dict) :
                /\ DictGet(ncs_dict, h) \in NcSizes(h)
                /\ \A n \in NcSizes(h) : n <= DictGet(ncs_dict, h)
    /\ pc = "nc_removed" =>
          /\ out_stream = ExpectedStream(FastaRecords(<<input_file>>))
          /\ \A i \in DOMAIN out_stream :
                /\ out_stream[i].size > 0
                /\ \E j \in DOMAIN input_file.records :
                      /\ input_file.records[j][1] = out_stream[i].hash
                      /\ out_stream[i].size <= input_file.records[j][2]
          /\ removed_reads = TotalSize(FastaRecords(<<input_file>>)) - TotalSize(out_stream)

C15_Witness ==
    /\ pc = "nc_removed"
    /\ removed_reads > 0
    /\ \E i \in DOMAIN out_stream : \E j \in DOMAIN input_file.records :
          /\ input_file.records[j][1] = out_stream[i].hash
          /\ out_stream[i].size < input_file.records[j][2]

\* the position of a step in the order of the pipeline, 6 for a later step
StepRank(step) ==
    IF step \in Range(ProcessingSteps) THEN StepIndex(step) ELSE Len(ProcessingSteps) + 1

Performed(step) == DictGet(settings_decisions, step)

\* C16: choose_input returns the latest performed step strictly before
\* current_step (all five steps for a current step outside the list),
\* 06_dereplication when no optional step before it is performed, never the
\* current or a later step, and a step for every current step after
\* 06_dereplication.
C16_ChooseInput ==
    pc = "input_chosen" =>
        /\ StepRank(current_step) > 1 =>
              /\ prior_step \in Range(ProcessingSteps)
              /\ StepRank(prior_step) < StepRank(current_step)
              /\ Performed(prior_step)
              /\ \A i \in DOMAIN ProcessingSteps :
                    (i > StepRank(prior_step) /\ i < StepRank(current_step))
                        => ~Performed(ProcessingSteps[i])
              /\ (\A i \in 2..(StepRank(current_step) - 1) : ~Performed(ProcessingSteps[i]))
                    => prior_step = "06_dereplication"
        /\ prior_step # None => StepRank(prior_step) < StepRank(current_step)

C16_Witness ==
    /\ pc = "input_chosen"
    /\ current_step = "10_nc_removal"
    /\ prior_step = "07_denoising"
    /\ Performed("10_nc_removal")

(***************************************************************************)
(* Properties of the choice of the representative.                         *)
(***************************************************************************)
\* the sequences visited before row i that are their own representative
RootsBefore(i) ==
    {sequence_group_data[j].hash_idx :
        j \in {k \in 1..(i - 1) :
                 sequence_group_data[k].group_idx = sequence_group_data[k].hash_idx}}

\* the matchfile rows that offer row i a representative
RootRows(i) ==
    {r \in group_matchfile : /\ r.hash_idx_target = sequence_group_data[i].hash_idx
                             /\ r.hash_idx_query \in RootsBefore(i)}

\* C17 as amended: the representative of S is the query with the smallest
\* fasta_order among the matchfile rows with target S whose query was visited
\* before S and is its own representative; S is its own representative when
\* there is no such row.
C17_SmallestRankedRoot ==
    \A i \in DOMAIN sequence_group_data :
        IF RootRows(i) = {}
        THEN sequence_group_data[i].group_idx = sequence_group_data[i].hash_idx
        ELSE \E r \in RootRows(i) :
                /\ sequence_group_data[i].group_idx = r.hash_idx_query
                /\ \A q \in RootRows(i) : r.fasta_order_query <= q.fasta_order_query

C17_Witness ==
    /\ pc = "groups_to_storage"
    /\ \E i \in DOMAIN sequence_group_data :
          /\ Cardinality(RootRows(i)) = 2
          /\ sequence_group_data[i].group_idx # sequence_group_data[i].hash_idx

\* the rows visited before row i that are a partner of row i in the matchfile,
\* as query or as target
PartnersBefore(i) ==
    {j \in 1..(i - 1) :
        \E r \in group_matchfile :
            \/ /\ r.hash_idx_query = sequence_group_data[j].hash_idx
               /\ r.hash_idx_target = sequence_group_data[i].hash_idx
            \/ /\ r.hash_idx_target = sequence_group_data[j].hash_idx
               /\ r.hash_idx_query = sequence_group_data[i].hash_idx}

\* C17: the representative of S is the partner of S with the smallest rank among
\* the partners visited before S, group root or not, query or target of the
\* edge; S is its own representative only without such a partner.
C17_SmallestRankedPartner ==
    \A i \in DOMAIN sequence_group_data :
        IF PartnersBefore(i) = {}
        THEN sequence_group_data[i].group_idx = sequence_group_data[i].hash_idx
        ELSE sequence_group_data[i].group_idx =
                 sequence_group_data[CHOOSE j \in PartnersBefore(i) :
                                         \A k \in PartnersBefore(i) : j <= k].hash_idx

(***************************************************************************)
(* Properties of check_daughter.                                           *)
(***************************************************************************)
RawRow(id) == raw_table[CHOOSE i \in DOMAIN raw_table : raw_table[i].ID = id]
SamplesOf(id) == {s \in Samples : RawRow(id).reads[s] > 0}
TotalReads(id) == SumOver(RawRow(id).reads, Samples)

\* the hits returned so far, with the matches they were computed from
Hits == {k \in DOMAIN results : results[k] # <<>>}
Misses == {k \in DOMAIN results : results[k] = <<>>}

\* both tests of check_daughter on the table as loaded
Passes(seq, parent) ==
    /\ SamplesOf(seq) \cap SamplesOf(parent) # {}
    /\ Cardinality(SamplesOf(seq)) * 100
           > thresholds.min_rel_co * Cardinality(SamplesOf(seq) \cap SamplesOf(parent))
    /\ \A s \in SamplesOf(seq) :
          RawRow(parent).reads[s] > thresholds.min_ratio * RawRow(seq).reads[s]

\* the candidates of the k-th call: the matches present in at least as many samples
Candidates(k) ==
    {p \in Range(matches[k].v) :
        Cardinality(SamplesOf(p)) >= Cardinality(SamplesOf(matches[k].k))}

\* q is evaluated before p: more samples, then more reads, then the row order
\* of the table file
EvaluatedBefore(q, p) ==
    \/ Cardinality(SamplesOf(q)) > Cardinality(SamplesOf(p))
    \/ /\ Cardinality(SamplesOf(q)) = Cardinality(SamplesOf(p))
       /\ \/ TotalReads(q) > TotalReads(p)
          \/ TotalReads(q) = TotalReads(p) /\ q < p

\* C18 as amended: check_daughter evaluates the candidates in the order of the
\* sorted table (descending occurence, then descending read count) and returns
\* the first that passes both tests; without a passing candidate it returns no
\* parent.
C18_FirstByOccurence ==
    /\ \A k \in Hits :
          /\ results[k][1] = matches[k].k
          /\ results[k][2] \in Candidates(k)
          /\ Passes(results[k][1], results[k][2])
          /\ \A q \in Candidates(k) :
                EvaluatedBefore(q, results[k][2]) => ~Passes(results[k][1], q)
    /\ \A k \in Misses : \A q \in Candidates(k) : ~Passes(matches[k].k, q)

C18_Witness ==
    \E k \in Hits : \E q \in Candidates(k) :
        /\ Passes(results[k][1], q)
        /\ TotalReads(q) > TotalReads(results[k][2])

\* C18: check_daughter evaluates the candidates in order of descending total
\* abundance and returns the first that passes: no passing candidate is more
\* abundant than the returned parent.
C18_FirstByAbundance ==
    \A k \in Hits : \A q \in Candidates(k) :
        Passes(results[k][1], q) => TotalReads(q) <= TotalReads(results[k][2])

\* C19: the relative co-occurrence of a returned hit is the number of samples in
\* which daughter and parent both have reads divided by the number of samples in
\* which the parent has reads, a value between 0 and 1.
C19_RelCoFraction ==
    \A k \in Hits :
        /\ results[k][3] =
               Frac(Cardinality(SamplesOf(results[k][1]) \cap SamplesOf(results[k][2])),
                    Cardinality(SamplesOf(results[k][2])))
        /\ results[k][3].num <= results[k][3].den

\* C20 as amended: with a minimum ratio >= 1 every parent returned by
\* check_daughter has a larger total read count than its daughter.
C20_ParentMoreAbundant ==
    thresholds.min_ratio >= 1 =>
        \A k \in Hits : TotalReads(results[k][2]) > TotalReads(results[k][1])

C20_Witness ==
    /\ thresholds.min_ratio >= 1
    /\ \E k \in Hits :
          /\ Cardinality(SamplesOf(results[k][2])) = Cardinality(SamplesOf(results[k][1]))
          /\ TotalReads(results[k][2]) > TotalReads(results[k][1])

\* C20: every parent returned by check_daughter has at least the total read
\* count of its daughter, for all non-negative thresholds.
C20_ParentAtLeastAsAbundant ==
    \A k \in Hits : TotalReads(results[k][2]) >= TotalReads(results[k][1])

(***************************************************************************)
(* Properties of check_daughter on rows without common samples.            *)
(***************************************************************************)
\* C21: for a daughter without reads in any sample and for a candidate without
\* reads in every sample of the daughter, check_daughter does not raise for
\* non-negative thresholds, and no parent is returned on account of such a
\* candidate: a returned parent has reads in a sample where the daughter has reads.
C21_NoParentWithoutCommonSample ==
    /\ pc # "lulu_ValueError"
    /\ \A i \in DOMAIN results :
           results[i] # <<>> =>
               \E s \in Samples : /\ RawRow(results[i][1]).reads[s] > 0
                                  /\ RawRow(results[i][2]).reads[s] # 0

\* a daughter without reads and a daughter whose candidate has reads in the other
\* sample only have both been evaluated, without a parent
C21_Witness ==
    /\ pc = "lulu_done"
    /\ thresholds.min_rel_co = 0
    /\ \E i \in DOMAIN results : \E j \in DOMAIN results :
           /\ results[i] = <<>> /\ results[j] = <<>>
           /\ SamplesOf(matches[i].k) = {}
           /\ SamplesOf(matches[j].k) # {}
           /\ \E h \in Range(matches[j].v) :
                  /\ SamplesOf(h) # {}
                  /\ SamplesOf(h) \cap SamplesOf(matches[j].k) = {}

(***************************************************************************)
(* Properties of the runs on a matchfile that names ids absent from the    *)
(* table.                                                                  *)
(***************************************************************************)
TableIds == {raw_table[i].ID : i \in DOMAIN raw_table}
AbsentEdges == {i \in DOMAIN matchfile : matchfile[i][1] \notin TableIds
                                          \/ matchfile[i][2] \notin TableIds}
\* the matchfile without the rows that name an absent id
PresentMatchfile == SelectSeq(matchfile, LAMBDA r : r[1] \in TableIds /\ r[2] \in TableIds)

\* C22: an edge whose query or target id is absent from the table is dropped and
\* the run continues: the curation loop does not raise, and the relations are
\* those of the matchfile without that edge.
C22_AbsentEdgeDropped ==
    /\ AbsentEdges # {} => pc # "lulu_KeyError"
    /\ pc = "lulu_done" =>
           DictKeys(matches) = {PresentMatchfile[i][1] : i \in DOMAIN PresentMatchfile}

(***************************************************************************)
(* Properties of generate_fasta.                                           *)
(***************************************************************************)
FastaWritten == pc \in {"generate_read_table", "check_threshold", "read_table_done"}

\* C23: fasta_order ranks the sequences by total abundance descending and
\* sequences of equal total abundance by hash ascending.
C23_TiesByHash ==
    FastaWritten =>
        \A i \in DOMAIN fasta_data : \A j \in DOMAIN fasta_data :
            (/\ fasta_data[i].hash # EmptySeq
             /\ fasta_data[j].hash # EmptySeq
             /\ fasta_data[i].fasta_order < fasta_data[j].fasta_order) =>
                \/ fasta_data[i].read_count > fasta_data[j].read_count
                \/ /\ fasta_data[i].read_count = fasta_data[j].read_count
                   /\ fasta_data[i].hash < fasta_data[j].hash

(***************************************************************************)
(* Properties of index_data_to_hdf.                                        *)
(***************************************************************************)
\* the records the loop has processed so far
Processed == SubSeq(AllRecords(input_files), 1, ix.data_idx)
HashesSeen == {Processed[i].hash : i \in DOMAIN Processed}
SamplesSeen == {Processed[i].sample_name : i \in DOMAIN Processed}
\* the first record of a hash or of a sample among the records p, and the
\* number of distinct hashes or samples before it
FirstOfHash(p, h) ==
    CHOOSE i \in DOMAIN p : p[i].hash = h /\ \A j \in 1..(i - 1) : p[j].hash # h
FirstOfSample(p, n) ==
    CHOOSE i \in DOMAIN p :
        p[i].sample_name = n /\ \A j \in 1..(i - 1) : p[j].sample_name # n
HashRank(p, h) == Cardinality({p[j].hash : j \in 1..(FirstOfHash(p, h) - 1)})
SampleRank(p, n) == Cardinality({p[j].sample_name : j \in 1..(FirstOfSample(p, n) - 1)})
StoredFacts == Range(hdf.read_count_data) \cup Range(ix.full_data)

\* C24: after any sequence of records the sequence catalog maps the n distinct
\* hashes seen one-to-one onto 0..n-1 and the sample catalog the m sample names
\* onto 0..m-1; the id of a hash or sample is the one given at its first record
\* and never changes, the stored sequence text of a hash is the text of its first
\* record, and every stored fact references an assigned sequence and sample id.
C24_CatalogsInjective ==
    LET p == Processed
        hashes == {p[i].hash : i \in DOMAIN p}
        samples == {p[i].sample_name : i \in DOMAIN p}
        n_hashes == Cardinality(hashes)
        n_samples == Cardinality(samples)
    IN  /\ DictKeys(ix.seq_hash_to_idx) = hashes
        /\ Len(ix.seq_hash_to_idx) = n_hashes
        /\ {ix.seq_hash_to_idx[i].v : i \in DOMAIN ix.seq_hash_to_idx} = 0..(n_hashes - 1)
        /\ DictKeys(ix.sample_to_idx) = samples
        /\ Len(ix.sample_to_idx) = n_samples
        /\ {ix.sample_to_idx[i].v : i \in DOMAIN ix.sample_to_idx} = 0..(n_samples - 1)
        /\ \A h \in hashes :
               /\ DictGet(ix.seq_hash_to_idx, h) = HashRank(p, h)
               /\ DictGet(ix.seq_hash_to_seq, h) = p[FirstOfHash(p, h)].seq
        /\ \A n \in samples : DictGet(ix.sample_to_idx, n) = SampleRank(p, n)
        /\ \A f \in StoredFacts :
               /\ f.hash_idx \in 0..(n_hashes - 1)
               /\ f.sample_idx \in 0..(n_samples - 1)
        /\ pc # "index" =>
               /\ Range(hdf.sequence_data) =
                      {[hash |-> h, hash_idx |-> DictGet(ix.seq_hash_to_idx, h),
                        seq |-> p[FirstOfHash(p, h)].seq] : h \in hashes}
               /\ Len(hdf.sequence_data) = n_hashes

\* a sequence that came in two records, behind the dummy sequence of both files
C24_Witness ==
    /\ pc = "generate_fasta"
    /\ \E h \in HashesSeen \ {EmptySeq} :
           Cardinality({i \in DOMAIN Processed : Processed[i].hash = h}) = 2
    /\ Cardinality(SamplesSeen) = 2

(***************************************************************************)
(* Properties of the output files of a stage that fails.                   *)
(***************************************************************************)
\* C25: a final output path never holds partial content: when index_data_to_hdf
\* fails on a record without a size annotation, the read-data store at its final
\* path does not exist (nothing was written to it).
C25_NoPartialOutput ==
    pc = "index_IndexError" => hdf = EmptyHdf

(***************************************************************************)
(* Properties of the chunked pivots of export_read_tables.                 *)
(***************************************************************************)
RowsOfSequence(id) == {k \in DOMAIN export.sequences : export.sequences[k].sequence_idx = id}

\* C26: the id ranges of the chunked pivots select every exported sequence
\* exactly once: the exported table holds exactly one row per selected sequence,
\* for any order of the ids and any subset left by the sequence filters.
C26_OneRowPerSequence ==
    pc = "chunks_exported" =>
        \A r \in Range(temp_db.seq_data) : Cardinality(RowsOfSequence(r.sequence_idx)) = 1

(***************************************************************************)
(* Properties of the buffer of index_data_to_hdf.                          *)
(***************************************************************************)
\* the fact row of the k-th record: the ids are the ranks of first appearance
FactOf(p, k) ==
    [hash_idx |-> HashRank(p, p[k].hash),
     sample_idx |-> SampleRank(p, p[k].sample_name),
     read_count |-> p[k].read_count]
ParsedFacts(p) == [k \in DOMAIN p |-> FactOf(p, k)]

\* C27: every parsed record is persisted as exactly one fact row: during the loop
\* the rows of the store followed by the rows of the buffer are the records
\* parsed so far, after the final flush the rows of the store are exactly the
\* parsed records, sentinels included, and the buffer full_data never holds more
\* than buffer_size rows.
C27_EveryRecordOnce ==
    LET all == AllRecords(input_files)
        p == SubSeq(all, 1, ix.data_idx)
    IN  /\ Len(ix.full_data) <= settings.buffer_size
        /\ pc = "index" => hdf.read_count_data \o ix.full_data = ParsedFacts(p)
        /\ pc \in {"generate_fasta", "generate_read_table", "check_threshold",
                    "read_table_done"} =>
               /\ p = all
               /\ hdf.read_count_data = ParsedFacts(p)

\* three records with a buffer of two rows: one flush in the loop, one after it
C27_Witness ==
    /\ pc = "generate_fasta"
    /\ settings.buffer_size = 2
    /\ Len(Processed) = 3
    /\ Len(ix.full_data) = 1
    /\ Len(hdf.read_count_data) = 3

(***************************************************************************)
(* Properties of the folders of h_replicate_merging.main.                  *)
(***************************************************************************)
PerformedSteps == {k \in DOMAIN merging.perform : merging.perform[k]}
LastPerformedStep == CHOOSE k \in PerformedSteps : \A l \in PerformedSteps : l <= k

\* C28: after main has run with at least one performed step, the folder
\* 09_replicate_merging/data holds exactly the output files of the last performed
\* step, and every performed step k > 1 merges the output files of step k - 1
\* (it finds files to merge), for every combination of perform flags.
C28_DataHoldsLastStep ==
    /\ pc # "merging_ValueError"
    /\ (/\ pc = "merging_steps"
        /\ merging.step_nr = Len(merging.perform)
        /\ PerformedSteps # {}) => merging.data = {LastPerformedStep}

(***************************************************************************)
(* Properties of the rows of the group mapping.                            *)
(***************************************************************************)
GroupMappingWritten == pc \in {"groups_to_storage", "read_table_done", "exported"}
MappingRowsOf(hash_idx) == {i \in DOMAIN group_mapping : group_mapping[i].hash_idx = hash_idx}
FastaOrderOf(hash_idx) ==
    fasta_data[CHOOSE i \in DOMAIN fasta_data : fasta_data[i].hash_idx = hash_idx].fasta_order
\* the sequences visited so far that became their own representative
OwnRepresentatives ==
    {sequence_group_data[i].hash_idx :
        i \in {j \in DOMAIN sequence_group_data :
                  sequence_group_data[j].group_idx = sequence_group_data[j].hash_idx}}

\* C29: every sequence of the catalog has exactly one row in the group mapping;
\* the representative of a sequence that is not its own representative has a
\* smaller fasta_order and is the query of a matchfile row whose target is the
\* sequence; the lookup table groups_found holds the match rows of the sequences
\* that became their own representative, and no others.
C29_OneRowPerSequence ==
    /\ groups_found = {r \in group_matchfile : r.hash_idx_query \in OwnRepresentatives}
    /\ GroupMappingWritten =>
           /\ Len(group_mapping) = Len(hdf.sequence_data)
           /\ \A s \in Range(hdf.sequence_data) : Cardinality(MappingRowsOf(s.hash_idx)) = 1
           /\ \A i \in DOMAIN group_mapping :
                  group_mapping[i].group_idx # group_mapping[i].hash_idx =>
                      /\ FastaOrderOf(group_mapping[i].group_idx)
                             < FastaOrderOf(group_mapping[i].hash_idx)
                      /\ \E r \in group_matchfile :
                             /\ r.hash_idx_query = group_mapping[i].group_idx
                             /\ r.hash_idx_target = group_mapping[i].hash_idx

\* a grouped sequence that is the query of a matchfile row of its own
C29_Witness ==
    /\ pc = "groups_to_storage"
    /\ \E i \in DOMAIN group_mapping :
          /\ group_mapping[i].group_idx # group_mapping[i].hash_idx
          /\ \E r \in group_matchfile \ groups_found :
                 r.hash_idx_query = group_mapping[i].hash_idx

(***************************************************************************)
(* Properties of the keys and values of aggregate_relations.               *)
(***************************************************************************)
ParentsOf(rel) == {rel[i].v : i \in DOMAIN rel}

\* C30: aggregate_relations neither loses nor invents daughters: the keys of the
\* returned mapping are the keys of the input relations, every value of the
\* returned mapping is a parent of the input relations, and when no daughter of
\* the input is also a parent the output equals the input.
C30_KeysPreserved ==
    AggDone =>
        /\ DictKeys(output) = DictKeys(relations)
        /\ Len(output) = Len(relations)
        /\ ParentsOf(output) \subseteq ParentsOf(relations)
        /\ DictKeys(relations) \cap ParentsOf(relations) = {} =>
               \A d \in DictKeys(relations) : DictGet(output, d) = DictGet(relations, d)

\* a dict of MaxRel relations with a daughter that is a parent has been aggregated
C30_Witness ==
    /\ AggDone
    /\ Len(relations) = MaxRel
    /\ DictKeys(relations) \cap ParentsOf(relations) # {}
====
